---- MODULE Spec2Model ----
(***************************************************************************)
(* A model of the SSP-SP data filter's processing ledger (CacheManager,    *)
(* src/src/utils/cache_manager.py) and of the scraper run that drives it   *)
(* (SSPDataScraper, src/src/core/scraper.py).                              *)
(*                                                                         *)
(* Python values are modelled by what the code can observe of them:        *)
(*   - a dict is [py |-> "dict", d |-> f], f a function from the keys it   *)
(*     holds (strings) to its values; a key may be absent, as .get and     *)
(*     .setdefault allow;                                                   *)
(*   - any JSON value that is not an object is [py |-> "list"] (the code   *)
(*     reaches it only through .get / .setdefault / item assignment, which *)
(*     raise on every non-dict alike);                                     *)
(*   - available_years is [py |-> "set" or "list", v |-> its elements]:    *)
(*     the same elements, but json.dump accepts only the list and          *)
(*     set.add exists only on the set;                                     *)
(*   - a ledger key is the string the f-string builds.                     *)
(* Time is the calendar year (datetime.now().year); timestamps are kept at *)
(* that granularity.                                                       *)
(***************************************************************************)
EXTENDS Integers, Sequences, FiniteSets, TLC

\* ------------------------------------------------------------- bounds
\* Years are 1..MaxYear; the calendar year starts at 2 so that past, current
\* and future years all exist.
MaxYear == 3
\* At most MaxCalls mutating ledger calls are made directly in one behaviour.
MaxCalls == 3
\* At most MaxRuns scraper runs are started in one behaviour.
MaxRuns == 2

Years == 1..MaxYear
\* The years validate_year is asked about: also year 0 and one past MaxYear.
QueryYears == 0..(MaxYear + 1)
FirstYear == 2
\* Two category names and two city names, chosen so that one is the other
\* followed by "_<digits>" (names are free strings for the ledger).
Categories == {"a", "a_1"}
Cities == {"x", "2_x"}
\* The (category, year) and (category, year, city) units the ledger is called
\* with directly: a past, a current and a future year.
FileUnits == {<<"a", 1>>, <<"a_1", 2>>, <<"a", 3>>}
CityUnits == {<<"a", 1, "2_x">>, <<"a_1", 2, "x">>, <<"a", 3, "x">>}
\* The file_info mapping handed to the mark calls.
Metas == {[filename |-> "info.xlsx", total_registros |-> 1000]}
\* Ledger instances (CacheManager objects) over the one backing file.
Instances == {1, 2}

VARIABLES
    store,       \* the backing document settings.CACHE_FILE
    now,         \* the calendar year, datetime.now().year
    cache_data,  \* cache_data[i]: self.cache_data of ledger instance i
    calls,       \* mutating ledger calls made directly (not by a scraper run)
    ret,         \* how the last call ended: "returned", "raised", or the
                 \* boolean it returned ("True", "False")
    run,         \* the SSPDataScraper of the run in progress and its position
    outputs,     \* the JSON files under settings.OUTPUT_DIR, by path
    events,      \* how often each effect happened: downloads, saves, marks
    runs,        \* scraper runs started so far
    call,        \* the call of a geographic or city-filter function under
                 \* way: its name and its arguments
    result       \* what that call returned, NoResult before it returns

ledgerVars == <<store, now, cache_data, calls, ret>>
scraperVars == <<run, outputs, events, runs>>
callVars == <<call, result>>
vars ==
    <<store, now, cache_data, calls, ret, run, outputs, events, runs,
      call, result>>

\* ------------------------------------------------------- Python dicts
\* No function call under way, and no result yet.
NoCall == [op |-> "none"]
NoResult == [py |-> "pending"]
Returned(v) == [py |-> "returned", v |-> v]

EmptyMap == [k \in {} |-> 0]
Dict(f) == [py |-> "dict", d |-> f]
NotADict == [py |-> "list"]
PySet(S) == [py |-> "set", v |-> S]
PyList(S) == [py |-> "list", v |-> S]

Put(f, k, v) == [x \in (DOMAIN f) \cup {k} |-> IF x = k THEN v ELSE f[x]]
Get(f, k, dflt) == IF k \in DOMAIN f THEN f[k] ELSE dflt
SetDefault(f, k, dflt) == IF k \in DOMAIN f THEN f ELSE Put(f, k, dflt)

\* ------------------------------------------------------------ documents
MissingDoc == [kind |-> "missing"]
\* A file that exists and is not JSON text (json.load raises).
CorruptDoc == [kind |-> "text"]
JsonDoc(v) == [kind |-> "json", value |-> v]

\* ------------------------------------------------------------- the ledger
FileKey(category, year) == category \o "_" \o ToString(year)
CityKey(category, year, city) ==
    category \o "_" \o ToString(year) \o "_" \o city

DefaultCache(t) ==
    Dict([processed_files |-> EmptyMap,
          processed_cities |-> EmptyMap,
          available_years |-> PySet({}),
          last_update |-> t,
          version |-> "1.0"])

\* _load_cache: the parsed document when the file exists and parses, whatever
\* its shape; the default ledger when it is missing or json.load raises.
LoadCache(doc, t) ==
    IF doc.kind = "json" THEN doc.value ELSE DefaultCache(t)

\* What json.dump writes for cache_to_save: the copy with a set under
\* "available_years" turned into a list.
CacheToSave(data) ==
    IF /\ "available_years" \in DOMAIN data.d
       /\ data.d["available_years"].py = "set"
    THEN Dict(Put(data.d, "available_years",
                  PyList(data.d["available_years"].v)))
    ELSE data

\* A save that skips the write (the mutation stays in memory only).
SaveCacheNoWrite(data, old, wr) == old

\* A save that first merges in the entries of the document on disk.
SaveCacheMerging(data, old, wr) ==
    IF old.kind = "json" /\ old.value.py = "dict"
    THEN LET new == CacheToSave(data).d
             disk == old.value.d
             Merge(k) == [x \in DOMAIN Get(disk, k, EmptyMap) \cup DOMAIN Get(new, k, EmptyMap) |->
                             IF x \in DOMAIN Get(new, k, EmptyMap)
                             THEN new[k][x] ELSE disk[k][x]]
         IN JsonDoc(Dict(Put(Put(new, "processed_files", Merge("processed_files")),
                             "processed_cities", Merge("processed_cities"))))
    ELSE JsonDoc(CacheToSave(data))

\* _save_cache: the document left in the backing file. wr is how the write
\* went: "ok"; "open" (open() raised, nothing touched); "dump" (open(..., 'w')
\* truncated the file and json.dump raised before the text was complete).
\* Both failures are swallowed by the except clause.
SaveCache(data, old, wr) ==
    CASE wr = "ok" -> JsonDoc(CacheToSave(data))
      [] wr = "open" -> old
      [] OTHER -> CorruptDoc

\* A call of .get / .setdefault / item assignment on self.cache_data raises
\* when json.load returned something that is not a dict.
Raises(data) == data.py # "dict"

ProcessedFiles(data) == Get(data.d, "processed_files", EmptyMap)
ProcessedCities(data) == Get(data.d, "processed_cities", EmptyMap)

is_file_processed(data, category, year) ==
    FileKey(category, year) \in DOMAIN ProcessedFiles(data)

is_city_processed(data, category, year, city) ==
    CityKey(category, year, city) \in DOMAIN ProcessedCities(data)

FileEntry(category, year, t, file_info) ==
    [category |-> category, year |-> year, processed_at |-> t,
     file_info |-> file_info]

CityEntry(category, year, city, t, file_info) ==
    [category |-> category, year |-> year, city |-> city, processed_at |-> t,
     file_info |-> file_info]

\* A mark that assigns a fresh dict holding only the new entry.
WithFileOnly(data, category, year, t, file_info) ==
    Dict(Put(data.d, "processed_files",
             Put(EmptyMap, FileKey(category, year),
                 FileEntry(category, year, t, file_info))))

\* cache_data after mark_file_processed's assignment.
WithFile(data, category, year, t, file_info) ==
    LET d1 == SetDefault(data.d, "processed_files", EmptyMap)
    IN Dict(Put(d1, "processed_files",
                Put(d1["processed_files"], FileKey(category, year),
                    FileEntry(category, year, t, file_info))))

\* cache_data after mark_city_processed's assignment.
WithCity(data, category, year, city, t, file_info) ==
    LET d1 == SetDefault(data.d, "processed_cities", EmptyMap)
    IN Dict(Put(d1, "processed_cities",
                Put(d1["processed_cities"], CityKey(category, year, city),
                    CityEntry(category, year, city, t, file_info))))

\* get_available_years: the set, also when the ledger holds a list.
get_available_years(data) == Get(data.d, "available_years", PySet({})).v

\* The year left out of the set.
WithYearNotAdded(data, year) == data

\* cache_data after add_available_year's conversion and add.
WithYear(data, year) ==
    Dict(Put(data.d, "available_years",
             PySet(get_available_years(data) \cup {year})))

\* No year rejected.
validate_year_any(year, t) == TRUE

\* The comparison off by one: the current year rejected too.
validate_year_strict(year, t) == ~(year >= t)

validate_year(year, t) == ~(year > t)

get_cache_info(data) ==
    [total_processed_files |-> Cardinality(DOMAIN ProcessedFiles(data)),
     total_processed_cities |-> Cardinality(DOMAIN ProcessedCities(data)),
     available_years |-> get_available_years(data),
     last_update |-> Get(data.d, "last_update", 0)]

\* ---------------------------------------------------------------- calls
\* CacheManager(): a new ledger object for instance i, loaded from the file.
Construct(i) ==
    /\ cache_data' = [cache_data EXCEPT ![i] = LoadCache(store, now)]
    /\ ret' = "returned"
    /\ UNCHANGED <<store, now, calls>>
    /\ UNCHANGED scraperVars
    /\ UNCHANGED callVars

\* A mutating call that raises on its first access to self.cache_data.
Raise ==
    /\ ret' = "raised"
    /\ UNCHANGED <<store, now, cache_data>>

\* A mutating call that sets self.cache_data to new and calls _save_cache.
Mutate(i, new, wr) ==
    /\ cache_data' = [cache_data EXCEPT ![i] = new]
    /\ store' = SaveCache(new, store, wr)
    /\ ret' = "returned"
    /\ UNCHANGED now

MarkFileProcessed(i, category, year, file_info, wr) ==
    /\ calls < MaxCalls
    /\ calls' = calls + 1
    /\ UNCHANGED scraperVars
    /\ UNCHANGED callVars
    /\ IF Raises(cache_data[i])
       THEN Raise
       ELSE Mutate(i, WithFile(cache_data[i], category, year, now, file_info), wr)

MarkCityProcessed(i, category, year, city, file_info, wr) ==
    /\ calls < MaxCalls
    /\ calls' = calls + 1
    /\ UNCHANGED scraperVars
    /\ UNCHANGED callVars
    /\ IF Raises(cache_data[i])
       THEN Raise
       ELSE Mutate(i, WithCity(cache_data[i], category, year, city, now, file_info), wr)

\* add_available_year without its _save_cache call.
AddAvailableYearNoSave(i, year, wr) ==
    /\ calls < MaxCalls
    /\ calls' = calls + 1
    /\ UNCHANGED scraperVars
    /\ UNCHANGED callVars
    /\ IF Raises(cache_data[i])
       THEN Raise
       ELSE /\ cache_data' = [cache_data EXCEPT ![i] = WithYear(cache_data[i], year)]
            /\ ret' = "returned"
            /\ UNCHANGED <<store, now>>

AddAvailableYear(i, year, wr) ==
    /\ calls < MaxCalls
    /\ calls' = calls + 1
    /\ UNCHANGED scraperVars
    /\ UNCHANGED callVars
    /\ IF Raises(cache_data[i])
       THEN Raise
       ELSE Mutate(i, WithYear(cache_data[i], year), wr)

\* clear_cache without its _save_cache call.
ClearCacheNoSave(i, wr) ==
    /\ calls < MaxCalls
    /\ calls' = calls + 1
    /\ UNCHANGED scraperVars
    /\ UNCHANGED callVars
    /\ cache_data' = [cache_data EXCEPT ![i] = DefaultCache(now)]
    /\ ret' = "returned"
    /\ UNCHANGED <<store, now>>

ClearCache(i, wr) ==
    /\ calls < MaxCalls
    /\ calls' = calls + 1
    /\ UNCHANGED scraperVars
    /\ UNCHANGED callVars
    /\ Mutate(i, DefaultCache(now), wr)

ValidateYear(i, year) ==
    /\ ret' = IF validate_year(year, now) THEN "True" ELSE "False"
    /\ UNCHANGED <<store, now, cache_data, calls>>
    /\ UNCHANGED scraperVars
    /\ UNCHANGED callVars

\* The calendar year changes.
NewYear ==
    /\ now < MaxYear
    /\ now' = now + 1
    /\ UNCHANGED <<store, cache_data, calls, ret>>
    /\ UNCHANGED scraperVars
    /\ UNCHANGED callVars

\* ------------------------------------------------------------ the scraper
\* settings.CATEGORIES in its iteration order.
CategorySeq == <<"a", "a_1">>
\* settings.DEFAULT_CITY, used when no city is given.
DefaultCity == "x"
\* The target year argument: 0 stands for None (both are falsy).
NoYear == 0
TargetYears == {NoYear} \cup Years
\* The target city argument: "" stands for None.
TargetCities == {"", "Todas", "2_x"}
\* What get_links returns: for each category the years that have a download
\* link, or {} when the page could not be read.
LinkMaps ==
    { [a |-> {1, 2}, a_1 |-> {2, 3}],
      [a |-> {}, a_1 |-> {1, 2}],
      EmptyMap }
\* The file a direct caller marks: a year that is still to come at FirstYear.
DirectUnits == {<<"a", 3>>}
\* How the downloads and writes of one scrape_category call go.
ScrapeOutcomes == {"ok", "download_fails", "save_fails"}
\* How the filtering and the write of one process_city_data call go.
CityOutcomes == {"ok", "filter_raises", "save_fails"}

NumCategories == Len(CategorySeq)

IdleRun ==
    [pc |-> "idle", target_year |-> NoYear, target_city |-> "", force |-> FALSE,
     links |-> EmptyMap, k |-> 0, success_count |-> 0]

Max(S) == CHOOSE x \in S : \A y \in S : y <= x
Min(S) == CHOOSE x \in S : \A y \in S : x <= y

\* run, lines 352-359: with no target year, the most recent year of any link.
AdjustedTargetYear(target_year, links) ==
    LET anos == UNION {links[c] : c \in DOMAIN links}
    IN IF target_year = NoYear /\ anos # {} THEN Max(anos) ELSE target_year

\* scrape_category, lines 243-249: the target year when the category has it,
\* else the category's most recent year.
AnoAlvo(download_links, target_year) ==
    IF target_year = NoYear \/ target_year \notin download_links
    THEN Max(download_links)
    ELSE target_year

\* The skip gate of scrape_category: marked already, and not forced.
AlreadyProcessedNever(data, category, year, force) == FALSE

AlreadyProcessed(data, category, year, force) ==
    is_file_processed(data, category, year) /\ ~force

\* The skip gate of process_city_filter, with FORCE_REPROCESS looked at.
CityAlreadyProcessedUnlessForced(data, category, year, city, force) ==
    is_city_processed(data, category, year, city) /\ ~force

\* The skip gate of process_city_filter: marked already, forced or not.
CityAlreadyProcessed(data, category, year, city, force) ==
    is_city_processed(data, category, year, city)

\* The year of the city step taken from what scrape_category ingested.
CityYearIngested(target_year, download_links) ==
    IF download_links = {} THEN target_year
    ELSE AnoAlvo(download_links, target_year)

\* The year run hands to process_city_data: self.target_year.
CityYear(target_year, download_links) == target_year

\* The year scrape_category hands to mark_file_processed: the year ingested.
MarkedYearTarget(target_year, ano_alvo) == target_year

MarkedYear(target_year, ano_alvo) == ano_alvo

\* Paths under OUTPUT_DIR.
FileName(category, year) == category \o "_" \o ToString(year) \o ".json"
\* city.replace(" ", "_").replace(".", "").replace(",", ""): the city names
\* of TargetCities hold none of these characters.
CityClean(city) == city
CityFileName(category, year, city) ==
    "cities/" \o category \o "_" \o ToString(year) \o "_" \o CityClean(city) \o ".json"

\* ScrapingResult.to_dict() as saved, reduced to the filter and the time.
ResultDict(cidade_filtro, t) ==
    [cidade_filtro |-> cidade_filtro, data_processamento |-> t]

\* The file_info scrape_category and process_city_data hand to the ledger.
ScraperFileInfo(category, year) ==
    [filename |-> category \o "_" \o ToString(year) \o ".xlsx",
     total_registros |-> 10, cidade_filtro |-> "TODAS"]
ScraperCityInfo == [registros_filtrados |-> 1, total_registros |-> 10]

Bump(ev, name) == Put(ev, name, Get(ev, name, 0) + 1)
Count(name) == Get(events, name, 0)

\* The run moves on to the next category, or to the city loop.
Advance(success) ==
    run' = [run EXCEPT
              !.success_count = IF success THEN @ + 1 ELSE @,
              !.k = IF run.k = NumCategories THEN 1 ELSE @ + 1,
              !.pc = IF run.k = NumCategories THEN "city" ELSE @]

\* SSPDataScraper(target_year, target_city) followed by run() up to the first
\* category: the ledger is loaded, the target year validated, the links read
\* and a missing target year replaced.
RunStart(target_year, target_city, force, links) ==
    /\ run.pc = "idle"
    /\ runs < MaxRuns
    /\ runs' = runs + 1
    /\ cache_data' = [cache_data EXCEPT ![1] = LoadCache(store, now)]
    /\ IF target_year # NoYear /\ ~validate_year(target_year, now)
       THEN \* run() returns at once; the scraper object keeps its target year
            /\ run' = [IdleRun EXCEPT !.target_year = target_year]
            /\ ret' = "False"
       ELSE /\ run' = [pc |-> "scrape",
                       target_year |-> AdjustedTargetYear(target_year, links),
                       target_city |-> IF target_city = "" THEN DefaultCity ELSE target_city,
                       force |-> force,
                       links |-> links,
                       k |-> 1,
                       success_count |-> 0]
            /\ ret' = "returned"
    /\ UNCHANGED <<store, now, calls, outputs, events>>
    /\ UNCHANGED callVars

\* One scrape_category call of run's loop.
ScrapeCategory(outcome) ==
    /\ run.pc = "scrape"
    /\ LET category == CategorySeq[run.k]
           download_links == Get(run.links, category, {})
           ano_alvo == AnoAlvo(download_links, run.target_year)
           data == cache_data[1]
           year == MarkedYear(run.target_year, ano_alvo)
           marked == WithFile(data, category, year, now, ScraperFileInfo(category, ano_alvo))
           added == WithYear(marked, ano_alvo)
       IN  IF download_links = {}
           THEN \* category not available: not counted as a failure
                /\ ret' = "True"
                /\ Advance(TRUE)
                /\ UNCHANGED <<store, cache_data, outputs, events>>
           ELSE IF ~validate_year(ano_alvo, now)
           THEN /\ ret' = "False"
                /\ Advance(FALSE)
                /\ UNCHANGED <<store, cache_data, outputs, events>>
           ELSE IF Raises(data)
           THEN \* is_file_processed raises; the except clause returns False
                /\ ret' = "False"
                /\ Advance(FALSE)
                /\ UNCHANGED <<store, cache_data, outputs, events>>
           ELSE IF AlreadyProcessed(data, category, ano_alvo, run.force)
           THEN /\ ret' = "True"
                /\ Advance(TRUE)
                /\ UNCHANGED <<store, cache_data, outputs, events>>
           ELSE IF outcome = "download_fails"
           THEN /\ ret' = "False"
                /\ Advance(FALSE)
                /\ UNCHANGED <<store, cache_data, outputs, events>>
           ELSE IF outcome = "save_fails"
           THEN /\ ret' = "False"
                /\ Advance(FALSE)
                /\ events' = Bump(events, "download:" \o FileKey(category, ano_alvo))
                /\ UNCHANGED <<store, cache_data, outputs>>
           ELSE /\ ret' = "True"
                /\ Advance(TRUE)
                /\ outputs' = Put(outputs, FileName(category, ano_alvo),
                                  ResultDict("TODAS", now))
                /\ cache_data' = [cache_data EXCEPT ![1] = added]
                /\ store' = SaveCache(added, SaveCache(marked, store, "ok"), "ok")
                /\ events' = Bump(Bump(Bump(events,
                                "download:" \o FileKey(category, ano_alvo)),
                                "save:" \o FileKey(category, ano_alvo)),
                                "mark:" \o FileKey(category, year))
    /\ UNCHANGED <<now, calls, runs>>
    /\ UNCHANGED callVars

\* One process_city_data call of run's city loop.
ProcessCityData(outcome) ==
    /\ run.pc = "city"
    /\ run.target_city # "Todas"
    /\ run.target_year # NoYear
    /\ run.k <= NumCategories
    /\ LET category == CategorySeq[run.k]
           year == CityYear(run.target_year, Get(run.links, category, {}))
           city == run.target_city
           data == cache_data[1]
           unit == CityKey(category, year, city)
           marked == WithCity(data, category, year, city, now, ScraperCityInfo)
       IN  IF Raises(data)
           THEN \* is_city_processed raises; process_city_filter returns None
                /\ ret' = "True"
                /\ UNCHANGED <<store, cache_data, outputs, events>>
           ELSE IF CityAlreadyProcessed(data, category, year, city, run.force)
           THEN /\ ret' = "True"
                /\ UNCHANGED <<store, cache_data, outputs, events>>
           ELSE IF FileName(category, year) \notin DOMAIN outputs
           THEN \* complete data not found
                /\ ret' = "True"
                /\ UNCHANGED <<store, cache_data, outputs, events>>
           ELSE IF outcome = "filter_raises"
           THEN /\ ret' = "True"
                /\ UNCHANGED <<store, cache_data, outputs, events>>
           ELSE IF outcome = "save_fails"
           THEN /\ ret' = "False"
                /\ events' = Bump(events, "filter:" \o unit)
                /\ UNCHANGED <<store, cache_data, outputs>>
           ELSE /\ ret' = "True"
                /\ outputs' = Put(outputs, CityFileName(category, year, city),
                                  ResultDict(city, now))
                /\ cache_data' = [cache_data EXCEPT ![1] = marked]
                /\ store' = SaveCache(marked, store, "ok")
                /\ events' = Bump(Bump(Bump(events, "filter:" \o unit),
                                "city_save:" \o unit), "city_mark:" \o unit)
    /\ run' = [run EXCEPT !.k = @ + 1]
    /\ UNCHANGED <<now, calls, runs>>
    /\ UNCHANGED callVars

\* The end of run(): the cache summary is read and success_count > 0 returned.
RunReturn ==
    /\ run.pc = "city"
    /\ \/ run.target_city = "Todas"
       \/ run.target_year = NoYear
       \/ run.k > NumCategories
    /\ ret' = IF run.target_city # "Todas" /\ run.target_year = NoYear
              THEN IF run.success_count > 0 THEN "True" ELSE "False"
              ELSE IF Raises(cache_data[1])
              THEN "raised"   \* get_cache_info raises out of run()
              ELSE IF run.success_count > 0 THEN "True" ELSE "False"
    /\ run' = IdleRun
    /\ UNCHANGED <<store, now, cache_data, calls, outputs, events, runs>>
    /\ UNCHANGED callVars

\* ------------------------------------------------------- Python strings
\* A str is the sequence of its characters, so that strip, split, lower and
\* the substring test work on it as they do in Python.
IsSpace(c) == c = " "

RECURSIVE LStrip(_)
LStrip(s) == IF s # <<>> /\ IsSpace(Head(s)) THEN LStrip(Tail(s)) ELSE s

RECURSIVE RStrip(_)
RStrip(s) ==
    IF s # <<>> /\ IsSpace(s[Len(s)]) THEN RStrip(SubSeq(s, 1, Len(s) - 1)) ELSE s

\* str.strip()
Strip(s) == RStrip(LStrip(s))

\* str.split(sep) for a one-character separator: always at least one part.
RECURSIVE Split(_, _)
Split(s, sep) ==
    IF \A i \in 1..Len(s) : s[i] # sep
    THEN <<s>>
    ELSE LET i == CHOOSE j \in 1..Len(s) :
                      s[j] = sep /\ \A h \in 1..(j - 1) : s[h] # sep
         IN <<SubSeq(s, 1, i - 1)>> \o Split(SubSeq(s, i + 1, Len(s)), sep)

\* sub in s
Contains(sub, s) ==
    \E i \in 1..(Len(s) - Len(sub) + 1) : SubSeq(s, i, i + Len(sub) - 1) = sub

\* str.lower()
UpperCase ==
    <<"A", "B", "C", "D", "E", "F", "G", "H", "I", "J", "K", "L", "M",
      "N", "O", "P", "Q", "R", "S", "T", "U", "V", "W", "X", "Y", "Z">>
LowerCase ==
    <<"a", "b", "c", "d", "e", "f", "g", "h", "i", "j", "k", "l", "m",
      "n", "o", "p", "q", "r", "s", "t", "u", "v", "w", "x", "y", "z">>
LowerChar(c) ==
    IF \E i \in 1..Len(UpperCase) : UpperCase[i] = c
    THEN LowerCase[CHOOSE i \in 1..Len(UpperCase) : UpperCase[i] = c]
    ELSE c
Lower(s) == [i \in 1..Len(s) |-> LowerChar(s[i])]

\* "".join(parts)
RECURSIVE Join(_)
Join(parts) == IF parts = <<>> THEN <<>> ELSE Head(parts) \o Join(Tail(parts))

\* -------------------------------------------------------- Python floats
\* A float is NaN or the decimal n / d, d a power of ten and as small as it
\* can be, so that equal numbers are equal values. None is the missing value.
NaN == [f |-> "nan"]
\* float('inf')
Inf == [f |-> "inf"]
None == [f |-> "None"]
\* float() raising ValueError or TypeError.
NotAFloat == [f |-> "error"]

RECURSIVE Dec(_, _)
Dec(n, d) ==
    IF d > 1 /\ n % 10 = 0 THEN Dec(n \div 10, d \div 10)
    ELSE [f |-> "num", n |-> n, d |-> d]

IsNum(x) == x.f = "num"
Abs(n) == IF n < 0 THEN -n ELSE n

\* a <= b on floats: false when either is NaN; inf is above every number.
FloatLE(a, b) ==
    IF a = Inf THEN b = Inf
    ELSE IF b = Inf THEN IsNum(a)
    ELSE IsNum(a) /\ IsNum(b) /\ a.n * b.d <= b.n * a.d

\* bool(x) of a float or None, as `if lat and lon` takes it.
Truthy(x) == x # None /\ (IsNum(x) => x.n # 0)

Digits == {"0", "1", "2", "3", "4", "5", "6", "7", "8", "9"}
DigitValue(c) ==
    CASE c = "0" -> 0 [] c = "1" -> 1 [] c = "2" -> 2 [] c = "3" -> 3
      [] c = "4" -> 4 [] c = "5" -> 5 [] c = "6" -> 6 [] c = "7" -> 7
      [] c = "8" -> 8 [] c = "9" -> 9

RECURSIVE DigitsValue(_)
DigitsValue(s) ==
    IF s = <<>> THEN 0
    ELSE 10 * DigitsValue(SubSeq(s, 1, Len(s) - 1)) + DigitValue(s[Len(s)])

RECURSIVE Pow10(_)
Pow10(k) == IF k = 0 THEN 1 ELSE 10 * Pow10(k - 1)

\* float(s) for a str s: surrounding blanks are dropped, then an optional
\* sign followed by "nan" or by digits with at most one point and at least
\* one digit. (Signs "+", exponents, underscores, "inf" do not occur in the
\* texts of the model.)
ParseFloat(s) ==
    LET t == Strip(s)
        neg == t # <<>> /\ Head(t) = "-"
        u == IF neg THEN Tail(t) ELSE t
        dots == {i \in 1..Len(u) : u[i] = "."}
        digs == {i \in 1..Len(u) : u[i] \in Digits}
    IN  IF Lower(u) = <<"n", "a", "n">> THEN NaN
        ELSE IF digs = {} \/ Cardinality(dots) > 1
                 \/ dots \cup digs # 1..Len(u) THEN NotAFloat
        ELSE LET dot == IF dots = {} THEN Len(u) + 1 ELSE CHOOSE i \in dots : TRUE
                 int == SubSeq(u, 1, dot - 1)
                 frac == SubSeq(u, dot + 1, Len(u))
                 n == DigitsValue(int \o frac)
             IN Dec(IF neg THEN -n ELSE n, Pow10(Len(frac)))

\* ------------------------------------------------- geographic utilities
\* The value of a record field, as json.load yields it: a number, a str or
\* None.
NumV(x) == [t |-> "num", x |-> x]
StrV(s) == [t |-> "str", s |-> s]
NoneV == [t |-> "null"]

\* float(value): TypeError for None.
PyFloat(v) ==
    CASE v.t = "num" -> v.x
      [] v.t = "str" -> ParseFloat(v.s)
      [] OTHER -> NotAFloat

\* str(value) of a str, of None or of the float NaN (the fields of the model
\* that are turned into text hold no other numbers).
PyStr(v) ==
    CASE v.t = "str" -> v.s
      [] v.t = "null" -> <<"N", "o", "n", "e">>
      [] v.t = "num" /\ v.x = NaN -> <<"n", "a", "n">>

\* settings.LATITUDE_FIELDS, LONGITUDE_FIELDS, ADDRESS_FIELDS
LATITUDE_FIELDS == <<"latitude", "lat", "coordenada_lat", "coord_lat", "LATITUDE">>
LONGITUDE_FIELDS ==
    <<"longitude", "lon", "lng", "coordenada_lon", "coord_lon", "LONGITUDE">>
ADDRESS_FIELDS == <<"endereco", "logradouro", "rua", "address", "local">>

\* The loop of extract_coordinates over one field list: the first field that
\* is in the record and that float() accepts, None when there is none.
RECURSIVE FirstFloat(_, _)
FirstFloat(fields, record) ==
    IF fields = <<>> THEN None
    ELSE IF Head(fields) \in DOMAIN record
            /\ PyFloat(record[Head(fields)]) # NotAFloat
         THEN PyFloat(record[Head(fields)])
         ELSE FirstFloat(Tail(fields), record)

\* The loop stopping at the first field that is in the record.
FirstFloatPresentOnly(fields, record) ==
    LET present == {i \in 1..Len(fields) : fields[i] \in DOMAIN record}
    IN IF present = {} \/ PyFloat(record[fields[Min(present)]]) = NotAFloat
       THEN None
       ELSE PyFloat(record[fields[Min(present)]])

extract_coordinates(record) ==
    <<FirstFloat(LATITUDE_FIELDS, record), FirstFloat(LONGITUDE_FIELDS, record)>>

\* settings.EARTH_RADIUS_KM
EarthRadiusKm == 6371
\* x / y rounded to the nearest integer (y even).
Round(x, y) == (x + y \div 2) \div y

\* math.radians(1) * EARTH_RADIUS_KM, in millimetres.
MillimetresPerDegree == 111194927

\* The arc of n / l degrees in hundredths of a km, rounded to the nearest:
\* MillimetresPerDegree * n / (10000 * l), the product taken in two parts
\* so that no intermediate value needs more than 32 bits.
ArcHundredths(n, l) ==
    LET high == n * (MillimetresPerDegree \div 10000)
        low == n * (MillimetresPerDegree % 10000)
    IN (high \div l) + Round((high % l) * 10000 + low, 10000 * l)

\* A coordinate that is a whole multiple of 90 degrees.
Quadrant(x) == IsNum(x) /\ x.d = 1 /\ x.n % 90 = 0

\* 2 * sin(d / 2) ** 2 and cos(d) for d a multiple of 90 degrees.
TwiceSinHalfSquared(n) ==
    CASE n % 360 = 0 -> 0 [] n % 180 = 0 -> 2 [] OTHER -> 1
CosQuadrant(n) == IF n % 180 = 0 THEN 1 ELSE 0

\* The whole latitudes l for which sin(l) ** 2 + cos(l) ** 2 is above 1.0
\* in IEEE doubles: between (l, lon) and its antipode `a` exceeds 1,
\* math.sqrt(1 - a) raises ValueError and the except branch returns inf.
RoundsAboveOne == {8, 12, 82}

Antipodal(lat1, lon1, lat2, lon2) ==
    /\ lat1.d = 1 /\ lat2.d = 1 /\ lon1.d = 1 /\ lon2.d = 1
    /\ lat1.n = -lat2.n
    /\ (lon1.n - lon2.n) % 360 = 180

\* The haversine distance in km, rounded to 2 decimals, over the points of
\* the model. sin(d / 2) ** 2 keeps of a difference d its absolute value
\* (signed: the difference is taken with its sign). NaN in, NaN out. Between
\* two points whose coordinates are multiples of 90 degrees, 2 * a is 0, 1
\* or 2 and the distance is 2 * a quarter circles; between two other points
\* of one meridian it is the radius times the latitude difference in
\* radians; between a point and its antipode the formula raises for the
\* latitudes of RoundsAboveOne.
HaversineKm(lat1, lon1, lat2, lon2, signed) ==
    LET Size(n) == IF signed THEN n ELSE Abs(n) IN
    IF {lat1, lon1, lat2, lon2} \cap {NaN} # {} THEN NaN
    ELSE CASE Quadrant(lat1) /\ Quadrant(lon1) /\ Quadrant(lat2)
              /\ Quadrant(lon2) ->
           LET a2 == TwiceSinHalfSquared(Size(lat2.n - lat1.n))
                       + CosQuadrant(lat1.n) * CosQuadrant(lat2.n)
                           * TwiceSinHalfSquared(Size(lon2.n - lon1.n))
           IN Dec(Round(EarthRadiusKm * 355 * 100 * a2, 113 * 2), 100)
         [] lon1 = lon2 /\ ~(Quadrant(lat1) /\ Quadrant(lon1)
                             /\ Quadrant(lat2)) ->
           LET L == IF lat1.d > lat2.d THEN lat1.d ELSE lat2.d
               N == Size(lat1.n * (L \div lat1.d) - lat2.n * (L \div lat2.d))
           IN Dec(ArcHundredths(N, L), 100)
         [] lon1 # lon2 /\ Antipodal(lat1, lon1, lat2, lon2)
              /\ Abs(lat1.n) \in RoundsAboveOne -> Inf

\* The distance taken from the signed differences.
calculate_distance_signed(lat1, lon1, lat2, lon2) ==
    HaversineKm(lat1, lon1, lat2, lon2, TRUE)

\* calculate_distance(lat1, lon1, lat2, lon2)
calculate_distance(lat1, lon1, lat2, lon2) ==
    HaversineKm(lat1, lon1, lat2, lon2, FALSE)

\* list.sort(key=distancia_km): a stable insertion sort.
RECURSIVE InsertByDistance(_, _)
InsertByDistance(item, sorted) ==
    IF sorted = <<>> THEN <<item>>
    ELSE IF FloatLE(Head(sorted).distancia_km, item.distancia_km)
         THEN <<Head(sorted)>> \o InsertByDistance(item, Tail(sorted))
         ELSE <<item>> \o sorted

\* The list left as the loop built it.
Unsorted(items) == items

RECURSIVE SortByDistance(_)
SortByDistance(items) ==
    IF items = <<>> THEN <<>>
    ELSE InsertByDistance(items[Len(items)],
                          SortByDistance(SubSeq(items, 1, Len(items) - 1)))

\* The (group, record) positions of all_data in scan order.
RECURSIVE Scan(_, _)
Scan(all_data, g) ==
    IF g > Len(all_data) THEN <<>>
    ELSE [i \in 1..Len(all_data[g].dados) |-> <<g, i>>] \o Scan(all_data, g + 1)

RecordAt(all_data, pos) == all_data[pos[1]].dados[pos[2]]

\* The test `if lat and lon` on what extract_coordinates returned.
HasCoordinates(coords) == Truthy(coords[1]) /\ Truthy(coords[2])
\* The test `lat is not None and lon is not None`.
HasCoordinatesNotNone(coords) == coords[1] # None /\ coords[2] # None

\* The item find_records_in_radius appends for a record.
RecordWithDistance(group, record, center_lat, center_lon) ==
    LET coords == extract_coordinates(record)
    IN [categoria |-> IF "categoria" \in DOMAIN group THEN group.categoria
                      ELSE "Desconhecida",
        latitude |-> coords[1],
        longitude |-> coords[2],
        distancia_km |-> calculate_distance(center_lat, center_lon,
                                            coords[1], coords[2]),
        dados_originais |-> record]

\* The test `distance <= radius_km`.
WithinRadiusStrict(distance, radius_km) ==
    FloatLE(distance, radius_km) /\ distance # radius_km
WithinRadius(distance, radius_km) == FloatLE(distance, radius_km)

RECURSIVE InRadius(_, _, _, _, _)
InRadius(positions, all_data, center_lat, center_lon, radius_km) ==
    IF positions = <<>> THEN <<>>
    ELSE LET pos == Head(positions)
             record == RecordAt(all_data, pos)
             rest == InRadius(Tail(positions), all_data, center_lat, center_lon,
                              radius_km)
         IN IF HasCoordinates(extract_coordinates(record))
            THEN LET item == RecordWithDistance(all_data[pos[1]], record,
                                                center_lat, center_lon)
                 IN IF WithinRadius(item.distancia_km, radius_km)
                    THEN <<item>> \o rest
                    ELSE rest
            ELSE rest

find_records_in_radius(center_lat, center_lon, radius_km, all_data) ==
    SortByDistance(InRadius(Scan(all_data, 1), all_data, center_lat, center_lon,
                            radius_km))

\* The tuple (lat, lon) that search_by_street and parse_coordinates return.
Pair(lat, lon) == [f |-> "tuple", lat |-> lat, lon |-> lon]
CoordinatesOf(record) ==
    Pair(extract_coordinates(record)[1], extract_coordinates(record)[2])

\* The address test of search_by_street on one record: some accepted address
\* field is in the record and its lowercased text holds the lowercased name.
AddressMatches(street_name, record) ==
    \E i \in 1..Len(ADDRESS_FIELDS) :
       /\ ADDRESS_FIELDS[i] \in DOMAIN record
       /\ Contains(Lower(street_name), Lower(PyStr(record[ADDRESS_FIELDS[i]])))

\* The scan returning the last matching record instead of the first.
RECURSIVE LastStreetMatch(_, _, _)
LastStreetMatch(positions, street_name, all_data) ==
    IF positions = <<>> THEN None
    ELSE LET record == RecordAt(all_data, positions[Len(positions)])
         IN IF AddressMatches(street_name, record)
               /\ HasCoordinates(extract_coordinates(record))
            THEN CoordinatesOf(record)
            ELSE LastStreetMatch(SubSeq(positions, 1, Len(positions) - 1),
                                 street_name, all_data)

RECURSIVE FirstStreetMatch(_, _, _)
FirstStreetMatch(positions, street_name, all_data) ==
    IF positions = <<>> THEN None
    ELSE LET record == RecordAt(all_data, Head(positions))
         IN IF AddressMatches(street_name, record)
               /\ HasCoordinates(extract_coordinates(record))
            THEN CoordinatesOf(record)
            ELSE FirstStreetMatch(Tail(positions), street_name, all_data)

search_by_street(street_name, all_data) ==
    FirstStreetMatch(Scan(all_data, 1), street_name, all_data)

\* The check without the geographic limits.
is_coordinate_format_unlimited(query) ==
    LET q == Strip(query)
        parts == Split(q, ",")
    IN  /\ Contains(<<",">>, q)
        /\ Len(parts) = 2
        /\ PyFloat(StrV(Strip(parts[1]))) # NotAFloat
        /\ PyFloat(StrV(Strip(parts[2]))) # NotAFloat

\* is_coordinate_format(query)
is_coordinate_format(query) ==
    LET q == Strip(query)
        parts == Split(q, ",")
    IN  /\ Contains(<<",">>, q)
        /\ Len(parts) = 2
        /\ PyFloat(StrV(Strip(parts[1]))) # NotAFloat
        /\ PyFloat(StrV(Strip(parts[2]))) # NotAFloat
        /\ FloatLE(Dec(-90, 1), PyFloat(StrV(Strip(parts[1]))))
        /\ FloatLE(PyFloat(StrV(Strip(parts[1]))), Dec(90, 1))
        /\ FloatLE(Dec(-180, 1), PyFloat(StrV(Strip(parts[2]))))
        /\ FloatLE(PyFloat(StrV(Strip(parts[2]))), Dec(180, 1))

\* parse_coordinates raising ValueError.
InvalidFormat == [f |-> "ValueError"]

\* parse_coordinates(coord_string): the first two parts as floats.
parse_coordinates(coord_string) ==
    LET parts == Split(Strip(coord_string), ",")
    IN  IF PyFloat(StrV(Strip(parts[1]))) = NotAFloat THEN InvalidFormat
        ELSE IF Len(parts) < 2 THEN InvalidFormat
        ELSE IF PyFloat(StrV(Strip(parts[2]))) = NotAFloat THEN InvalidFormat
        ELSE Pair(PyFloat(StrV(Strip(parts[1]))), PyFloat(StrV(Strip(parts[2]))))

\* search_and_analyze(query, radius_km) over the loaded files all_data.
search_and_analyze(query, radius_km, all_data) ==
    IF is_coordinate_format(query)
    THEN find_records_in_radius(parse_coordinates(query).lat,
                                parse_coordinates(query).lon, radius_km, all_data)
    ELSE LET coords == search_by_street(query, all_data)
         IN IF coords # None
            THEN find_records_in_radius(coords.lat, coords.lon, radius_km, all_data)
            ELSE <<>>

\* --------------------------------------------- geographic calls: inputs
\* The groups (loaded JSON files) hold at most MaxRecords records in all.
MaxRecords == 3
\* all_data holds NumGroups groups, as the two-file scenario does.
NumGroups == 2

RuaA == <<"R", "u", "a", " ", "A">>
RuaB == <<"R", "u", "a", " ", "B">>
Lat(n) == NumV(Dec(n, 100))
Lon46 == NumV(Dec(-46, 1))

\* The records of the model: the two of the scenario, one on the equator,
\* one whose first latitude field does not parse, one whose latitude is the
\* text "nan", one without latitude, and one at the place of the first
\* under another address.
GeoRecords ==
    { [logradouro |-> StrV(RuaA), latitude |-> Lat(-2300), longitude |-> Lon46],
      [logradouro |-> StrV(RuaB), latitude |-> Lat(-2301), longitude |-> Lon46],
      [rua |-> StrV(<<"R", "U", "A", " ", "A">>), latitude |-> Lat(0),
       longitude |-> Lon46],
      [logradouro |-> StrV(RuaB), latitude |-> StrV(<<"a", "b", "c">>),
       lat |-> StrV(<<"-", "2", "3", ".", "0", "2">>),
       lon |-> StrV(<<" ", "-", "4", "6">>)],
      [logradouro |-> StrV(RuaA), latitude |-> StrV(<<"n", "a", "n">>),
       longitude |-> Lon46],
      [endereco |-> NoneV, longitude |-> Lon46],
      [local |-> StrV(RuaB), latitude |-> Lat(-2300), longitude |-> Lon46] }

RecordLists == UNION {[1..n -> GeoRecords] : n \in 0..MaxRecords}
GroupNames == <<"furtos", "roubos", "outros">>
\* all_data: group g is file g, with its categoria and its dados.
AllData ==
    { [g \in 1..NumGroups |-> [categoria |-> GroupNames[g], dados |-> ds[g]]] :
        ds \in {x \in [1..NumGroups -> RecordLists] :
                  Len(x[1]) + Len(x[2]) <= MaxRecords} }

Centers == {<<Dec(-23, 1), Dec(-46, 1)>>, <<Dec(0, 1), Dec(-46, 1)>>}
Radii == {Dec(0, 1), Dec(2, 1), Dec(3, 1)}
StreetQueries == {RuaA, <<"r", "u", "a", " ", "b">>, <<"R", "u", "a", " ", "C">>}

\* The ledger and the scraper are not part of a geographic call.
LedgerUnused ==
    /\ store = MissingDoc
    /\ now = FirstYear
    /\ cache_data = [i \in Instances |-> LoadCache(MissingDoc, FirstYear)]
    /\ calls = 0
    /\ ret = "returned"
    /\ run = IdleRun
    /\ outputs = EmptyMap
    /\ events = EmptyMap
    /\ runs = 0

\* A function call returns: its arguments are left as they are.
Return(v) ==
    /\ result = NoResult
    /\ result' = Returned(v)
    /\ UNCHANGED <<call, ledgerVars, scraperVars>>

\* GeoUtils.find_records_in_radius(center_lat, center_lon, radius_km, all_data)
InitRadius ==
    /\ LedgerUnused
    /\ result = NoResult
    /\ \E c \in Centers, r \in Radii, d \in AllData :
          call = [op |-> "find_records_in_radius", center_lat |-> c[1],
                  center_lon |-> c[2], radius_km |-> r, all_data |-> d]

FindRecordsInRadius ==
    /\ call.op = "find_records_in_radius"
    /\ Return(find_records_in_radius(call.center_lat, call.center_lon,
                                     call.radius_km, call.all_data))

SpecRadius == InitRadius /\ [][FindRecordsInRadius]_vars

\* GeoUtils.calculate_distance(lat1, lon1, lat2, lon2) between valid points:
\* the poles, the equator, latitude 12 north and south, a latitude with
\* decimals, and the longitudes a quarter turn apart and -46.
DistanceLats ==
    {Dec(-90, 1), Dec(-2301, 100), Dec(-12, 1), Dec(0, 1), Dec(12, 1),
     Dec(90, 1)}
DistanceLons ==
    {Dec(-180, 1), Dec(-90, 1), Dec(-46, 1), Dec(0, 1), Dec(90, 1),
     Dec(180, 1)}
DistancePoints == DistanceLats \X DistanceLons
\* The pairs of points whose distance HaversineKm gives.
DistancePairs ==
    {pq \in DistancePoints \X DistancePoints :
        \/ \A x \in {pq[1][1], pq[1][2], pq[2][1], pq[2][2]} : Quadrant(x)
        \/ pq[1][2] = pq[2][2]
        \/ /\ Antipodal(pq[1][1], pq[1][2], pq[2][1], pq[2][2])
           /\ Abs(pq[1][1].n) \in RoundsAboveOne}

InitDistance ==
    /\ LedgerUnused
    /\ result = NoResult
    /\ \E pq \in DistancePairs :
          call = [op |-> "calculate_distance", lat1 |-> pq[1][1],
                  lon1 |-> pq[1][2], lat2 |-> pq[2][1], lon2 |-> pq[2][2]]

CalculateDistance ==
    /\ call.op = "calculate_distance"
    /\ Return(calculate_distance(call.lat1, call.lon1, call.lat2, call.lon2))

SpecDistance == InitDistance /\ [][CalculateDistance]_vars

\* GeoUtils.search_by_street(street_name, all_data)
InitStreet ==
    /\ LedgerUnused
    /\ result = NoResult
    /\ \E q \in StreetQueries, d \in AllData :
          call = [op |-> "search_by_street", street_name |-> q, all_data |-> d]

SearchByStreet ==
    /\ call.op = "search_by_street"
    /\ Return(search_by_street(call.street_name, call.all_data))

SpecStreet == InitStreet /\ [][SearchByStreet]_vars

\* GeoAnalyzer.search_and_analyze(query, radius_km), all_data being what
\* load_all_json_files reads.
CoordQueries == {<<"-", "2", "3", ".", "0", "1", ",", " ", "-", "4", "6">>}

InitAnalyze ==
    /\ LedgerUnused
    /\ result = NoResult
    /\ \E q \in StreetQueries \cup CoordQueries, r \in Radii, d \in AllData :
          call = [op |-> "search_and_analyze", query |-> q, radius_km |-> r,
                  all_data |-> d]

SearchAndAnalyze ==
    /\ call.op = "search_and_analyze"
    /\ Return(search_and_analyze(call.query, call.radius_km, call.all_data))

SpecAnalyze == InitAnalyze /\ [][SearchAndAnalyze]_vars

\* GeoUtils.extract_coordinates(record): the records are all the ways of
\* giving, or not giving, a value to some of the accepted fields.
Absent == [t |-> "absent"]
ExtractLatFields == {"latitude", "lat", "LATITUDE"}
ExtractLonFields == {"longitude", "lng"}
ExtractLatValues ==
    {Absent, NoneV, NumV(Dec(-23, 1)), StrV(<<"a", "b", "c">>),
     StrV(<<"n", "a", "n">>)}
ExtractLonValues == {Absent, NumV(Dec(-46, 1)), StrV(<<" ", "1", ".", "5", "0">>)}
ExtractRecords ==
    { [f \in {x \in DOMAIN a : a[x] # Absent} |-> a[f]] :
        a \in { la @@ lo : la \in [ExtractLatFields -> ExtractLatValues],
                           lo \in [ExtractLonFields -> ExtractLonValues] } }

InitExtract ==
    /\ LedgerUnused
    /\ result = NoResult
    /\ \E r \in ExtractRecords : call = [op |-> "extract_coordinates", record |-> r]

ExtractCoordinates ==
    /\ call.op = "extract_coordinates"
    /\ Return(extract_coordinates(call.record))

SpecExtract == InitExtract /\ [][ExtractCoordinates]_vars

\* GeoUtils.is_coordinate_format(query) and parse_coordinates(coord_string):
\* the texts are made of at most MaxTokens of these pieces, and the two texts
\* of the examples.
MaxTokens == 4
Tokens ==
    { <<"-">>, <<"9", "0">>, <<"1", "8", "0">>, <<"1">>, <<".">>, <<"5">>,
      <<",">>, <<" ">>, <<"a">>, <<"n", "a", "n">> }
ExampleCoordinates ==
    <<"-", "2", "3", ".", "5", "5", ",", "-", "4", "6", ".", "6", "3">>
ExampleStreet ==
    <<"R", "u", "a", " ", "d", "a", "s", " ", "F", "l", "o", "r", "e", "s">>
\* No text made of the pieces is longer than this, so that every number in
\* it fits the integers of the model.
MaxTextLen == 8
Texts ==
    {t \in {Join(ts) : ts \in UNION {[1..n -> Tokens] : n \in 0..MaxTokens}} :
        Len(t) <= MaxTextLen}
        \cup {ExampleCoordinates, ExampleStreet}

InitCoord ==
    /\ LedgerUnused
    /\ result = NoResult
    /\ \E op \in {"is_coordinate_format", "parse_coordinates"}, t \in Texts :
          call = [op |-> op, text |-> t]

IsCoordinateFormat ==
    /\ call.op = "is_coordinate_format"
    /\ Return(is_coordinate_format(call.text))

ParseCoordinates ==
    /\ call.op = "parse_coordinates"
    /\ Return(parse_coordinates(call.text))

NextCoord == IsCoordinateFormat \/ ParseCoordinates

SpecCoord == InitCoord /\ [][NextCoord]_vars

\* ------------------------------------------------------ the city filter
\* unicodedata.normalize('NFD', s): a letter with an accent becomes the
\* letter followed by a combining mark; other characters stay.
Accented == <<"ã", "é", "ç", "í">>
Unaccented == <<"a", "e", "c", "i">>
CombiningMark == "combining mark"
Decompose(c) ==
    IF \E i \in 1..Len(Accented) : Accented[i] = c
    THEN <<Unaccented[CHOOSE i \in 1..Len(Accented) : Accented[i] = c],
           CombiningMark>>
    ELSE <<c>>
NFD(s) == Join([i \in 1..Len(s) |-> Decompose(s[i])])

\* \w of a regular expression: letters, digits and the underscore.
IsWordChar(c) ==
    \/ \E i \in 1..Len(LowerCase) : c = LowerCase[i] \/ c = UpperCase[i]
    \/ \E i \in 1..Len(Accented) : c = Accented[i]
    \/ c \in Digits
    \/ c = "_"

\* re.sub(r'\s+', ' ', s)
RECURSIVE CollapseSpaces(_)
CollapseSpaces(s) ==
    IF Len(s) < 2 THEN s
    ELSE IF IsSpace(s[1]) /\ IsSpace(s[2]) THEN CollapseSpaces(Tail(s))
    ELSE <<s[1]>> \o CollapseSpaces(Tail(s))

\* A normalisation that removes the punctuation after it has collapsed
\* the blanks.
normalize_punctuation_last(city_name) ==
    LET NotCombining(c) == c # CombiningMark
        WordOrSpace(c) == IsWordChar(c) \/ IsSpace(c)
        unaccented == SelectSeq(NFD(Lower(city_name)), NotCombining)
    IN Strip(SelectSeq(CollapseSpaces(unaccented), WordOrSpace))

\* CityFilter.normalize_city_name
normalize_city_name(city_name) ==
    LET NotCombining(c) == c # CombiningMark
        WordOrSpace(c) == IsWordChar(c) \/ IsSpace(c)
        lowered == Lower(city_name)
        unaccented == SelectSeq(NFD(lowered), NotCombining)
        unpunctuated == SelectSeq(unaccented, WordOrSpace)
    IN Strip(CollapseSpaces(unpunctuated))

\* str.split(): the words between runs of blanks.
Words(s) ==
    LET NotEmpty(w) == w # <<>>
    IN SelectSeq(Split(s, " "), NotEmpty)

\* settings.CITY_SIMILARITY_THRESHOLD, MIN_SIGNIFICANT_WORDS_RATIO,
\* MIN_SIGNIFICANT_WORDS_COUNT
CITY_SIMILARITY_THRESHOLD == Dec(7, 10)
MIN_SIGNIFICANT_WORDS_RATIO == Dec(6, 10)
MIN_SIGNIFICANT_WORDS_COUNT == 2

\* n / d >= x for counts n, d and a float x.
RatioGE(n, d, x) == n * x.d >= x.n * d

\* ['dos', 'das', 'do', 'da', 'de']
StopWords ==
    {<<"d", "o", "s">>, <<"d", "a", "s">>, <<"d", "o">>, <<"d", "a">>,
     <<"d", "e">>}

Chars(s) == {s[i] : i \in 1..Len(s)}

\* A similarity that is never high enough.
string_similarity_zero(str1, str2) == [n |-> 0, d |-> 1]

\* CityFilter.string_similarity, as the fraction n / d.
string_similarity(str1, str2) ==
    IF Chars(str1) = {} /\ Chars(str2) = {} THEN [n |-> 1, d |-> 1]
    ELSE [n |-> Cardinality(Chars(str1) \cap Chars(str2)),
          d |-> Cardinality(Chars(str1) \cup Chars(str2))]

\* An abbreviation test that also takes a one-word city: its first letter.
check_abbreviations_single_word(cell_normalized, normalized_city) ==
    normalized_city # <<>> /\ Contains(<<normalized_city[1]>>, cell_normalized)

\* CityFilter.check_generic_abbreviations
check_generic_abbreviations(cell_normalized, normalized_city) ==
    LET city_words == Words(normalized_city)
        initials == [i \in 1..Len(city_words) |-> city_words[i][1]]
        first_word_abbr ==
            <<city_words[1][1], ".">> \o Tail(city_words[1])
        patterns ==
            << <<city_words[1][1], " ">> \o city_words[2],
               <<city_words[1][1], ".">> \o city_words[2],
               <<city_words[1][1]>> \o city_words[2] >>
    IN  /\ Len(city_words) >= 2
        /\ \/ Len(initials) >= 2 /\ Contains(initials, cell_normalized)
           \/ /\ Len(city_words[1]) > 1
              /\ Contains(first_word_abbr, cell_normalized)
           \/ \E i \in 1..Len(patterns) : Contains(patterns[i], cell_normalized)

\* An exception that leaves a function, and the error the try statement of
\* city_matches catches.
Raised(error) == [py |-> "raised", error |-> error]

\* The statements inside the try of city_matches: `normalized_city in
\* cell_normalized` raises TypeError when the target is not a str.
CityMatchesBody(cell_value, normalized_city) ==
    IF normalized_city.t # "str" THEN Raised("TypeError")
    ELSE
    LET target == normalized_city.s
        cell_normalized == normalize_city_name(PyStr(cell_value))
        city_words == Words(target)
        long == {i \in 1..Len(city_words) : Len(city_words[i]) > 2}
        found == {i \in long : Contains(city_words[i], cell_normalized)}
        matches == Cardinality(found)
        significant_matches ==
            Cardinality({i \in found : city_words[i] \notin StopWords})
        total_significant_words ==
            Cardinality({i \in long : city_words[i] \notin StopWords})
        similarity == string_similarity(cell_normalized, target)
    IN  Returned(
        \/ cell_normalized = target
        \/ Contains(target, cell_normalized)
        \/ /\ Len(city_words) >= 2
           /\ \/ significant_matches >= MIN_SIGNIFICANT_WORDS_COUNT
              \/ /\ total_significant_words > 0
                 /\ RatioGE(significant_matches, total_significant_words,
                            MIN_SIGNIFICANT_WORDS_RATIO)
              \/ matches >= 3
        \/ RatioGE(similarity.n, similarity.d, CITY_SIMILARITY_THRESHOLD)
        \/ check_generic_abbreviations(cell_normalized, target))

\* city_matches without its except clause.
city_matches_uncaught(cell_value, normalized_city) ==
    CityMatchesBody(cell_value, normalized_city)

\* CityFilter.city_matches: what the call returns; an exception raised
\* inside is caught and False returned.
city_matches(cell_value, normalized_city) ==
    IF CityMatchesBody(cell_value, normalized_city).py = "raised"
    THEN Returned(FALSE)
    ELSE CityMatchesBody(cell_value, normalized_city)

\* The city names given to the filter and the words the cells are made of.
CityNames ==
    {<<"S", "ã", "o", " ", "J", "o", "s", "é", " ", "d", "o", "s", " ",
       "C", "a", "m", "p", "o", "s">>,
     <<"S", "ã", "o", " ", "P", "a", "u", "l", "o">>,
     <<"C", "a", "m", "p", "i", "n", "a", "s">>}
MaxCellWords == 3
CellWords ==
    {<<"S", "A", "O">>, <<"S", ".", "J", "O", "S", "E">>, <<"J", "O", "S", "E">>,
     <<"D", "O", "S">>, <<"C", "A", "M", "P", "O", "S">>, <<"S", ".">>,
     <<"P", "A", "U", "L", "O">>, <<"s", "j", "d", "c">>,
     <<"C", "A", "M", "P", "I", "N", "A">>, <<"S", "ã", "o">>,
     <<"S", "a", "n", "t", "o", "s">>}
RECURSIVE JoinWords(_)
JoinWords(ws) ==
    IF Len(ws) = 0 THEN <<>>
    ELSE IF Len(ws) = 1 THEN ws[1]
    ELSE ws[1] \o <<" ">> \o JoinWords(Tail(ws))
CellTexts ==
    {JoinWords(ws) : ws \in UNION {[1..n -> CellWords] : n \in 0..MaxCellWords}}

\* The cells are texts, None or NaN; the target is a normalized city name
\* or, for a caller that passes no str, None.
CellValuesGiven == {StrV(c) : c \in CellTexts} \cup {NoneV, NumV(NaN)}
NormalizedCities ==
    {StrV(normalize_city_name(city)) : city \in CityNames} \cup {NoneV}

\* CityFilter.city_matches(cell_value, normalize_city_name(city_name))
InitMatch ==
    /\ LedgerUnused
    /\ result = NoResult
    /\ \E c \in CellValuesGiven, city \in NormalizedCities :
          call = [op |-> "city_matches", cell_value |-> c,
                  normalized_city |-> city]

CityMatches ==
    /\ call.op = "city_matches"
    /\ result = NoResult
    /\ result' = city_matches(call.cell_value, call.normalized_city)
    /\ UNCHANGED <<call, ledgerVars, scraperVars>>

SpecMatch == InitMatch /\ [][CityMatches]_vars

\* The names given to normalize_city_name: every text of up to MaxNameLen
\* characters with a capital, an accent, a blank, a point or an underscore.
MaxNameLen == 5
NameChars == {"a", "S", "ã", " ", ".", "_"}
NameTexts == UNION {[1..n -> NameChars] : n \in 0..MaxNameLen}

\* CityFilter.normalize_city_name(city_name)
InitNormalize ==
    /\ LedgerUnused
    /\ result = NoResult
    /\ \E s \in NameTexts : call = [op |-> "normalize_city_name", city_name |-> s]

NormalizeCityName ==
    /\ call.op = "normalize_city_name"
    /\ Return(normalize_city_name(call.city_name))

SpecNormalize == InitNormalize /\ [][NormalizeCityName]_vars

\* A pandas DataFrame: the column labels, the index labels of its rows and,
\* row by row, the cells in column order. A missing cell is the float NaN.
DataFrame(columns, index, rows) ==
    [py |-> "DataFrame", columns |-> columns, index |-> index, rows |-> rows]
NaNV == NumV(NaN)

\* ['cidade', 'municipio', 'local', 'city', 'município']
CityKeywords ==
    {<<"c", "i", "d", "a", "d", "e">>,
     <<"m", "u", "n", "i", "c", "i", "p", "i", "o">>,
     <<"l", "o", "c", "a", "l">>,
     <<"c", "i", "t", "y">>,
     <<"m", "u", "n", "i", "c", "í", "p", "i", "o">>}

\* CityFilter.find_city_columns
find_city_columns(df_columns) ==
    LET IsCityColumn(col) ==
            \E keyword \in CityKeywords : Contains(keyword, Lower(col))
    IN SelectSeq(df_columns, IsCityColumn)

\* The position of the column labelled col.
ColumnOf(df, col) == CHOOSE c \in 1..Len(df.columns) : df.columns[c] = col

\* df[col] = df[col].astype(str).str.strip()
StrippedColumn(df, col) ==
    [df EXCEPT !.rows =
        [i \in 1..Len(df.rows) |->
            [df.rows[i] EXCEPT ![ColumnOf(df, col)] = StrV(Strip(PyStr(@)))]]]

\* df[df[col].apply(lambda x: self.city_matches(x, normalized_city))]
RECURSIVE Selected(_, _, _, _)
Selected(df, col, normalized_city, i) ==
    IF i > Len(df.rows) THEN DataFrame(df.columns, <<>>, <<>>)
    ELSE LET rest == Selected(df, col, normalized_city, i + 1)
         IN IF city_matches(df.rows[i][ColumnOf(df, col)], normalized_city).v
            THEN DataFrame(df.columns, <<df.index[i]>> \o rest.index,
                           <<df.rows[i]>> \o rest.rows)
            ELSE rest

\* The object the caller passed, as the call leaves it, and the object the
\* call returns.
Outcome(df, returned) == [df |-> df, returned |-> returned]

\* A filter that looks at the first city column only.
FilterByFirstColumn(df, city_columns, normalized_city) ==
    IF city_columns = <<>> THEN Outcome(df, df)
    ELSE Outcome(StrippedColumn(df, city_columns[1]),
                 Selected(StrippedColumn(df, city_columns[1]),
                          city_columns[1], normalized_city, 1))

\* The loop of filter_dataframe_by_city over the city columns.
RECURSIVE FilterByColumns(_, _, _)
FilterByColumns(df, city_columns, normalized_city) ==
    IF city_columns = <<>> THEN Outcome(df, df)
    ELSE LET stripped == StrippedColumn(df, city_columns[1])
             temp_filtered ==
                 Selected(stripped, city_columns[1], normalized_city, 1)
         IN IF temp_filtered.rows # <<>>
            THEN Outcome(stripped, temp_filtered)
            ELSE FilterByColumns(stripped, Tail(city_columns), normalized_city)

\* CityFilter.filter_dataframe_by_city
filter_dataframe_by_city(df, city_name) ==
    FilterByColumns(df, find_city_columns(df.columns),
                    StrV(normalize_city_name(city_name)))

\* The frames given to the filter.
MaxRows == 2
NumColumns == 2
ColumnNames ==
    {<<"C", "I", "D", "A", "D", "E">>,
     <<"N", "O", "M", "E", "_", "M", "U", "N", "I", "C", "I", "P", "I", "O">>,
     <<"B", "A", "I", "R", "R", "O">>,
     <<"L", "o", "c", "a", "l">>}
CellValues ==
    {StrV(<<"S", "A", "O", " ", "J", "O", "S", "E", " ", "D", "O", "S", " ",
            "C", "A", "M", "P", "O", "S">>),
     StrV(<<" ", "S", ".", "J", "O", "S", "E", " ", "D", "O", "S", " ",
            "C", "A", "M", "P", "O", "S", " ">>),
     StrV(<<"S", "A", "N", "T", "O", "S">>),
     NaNV}
ColumnLists ==
    {cs \in [1..NumColumns -> ColumnNames] :
        \A i, j \in 1..NumColumns : cs[i] = cs[j] => i = j}
DataFrames ==
    {DataFrame(cs, [i \in 1..Len(rows) |-> i], rows) :
        cs \in ColumnLists,
        rows \in UNION {[1..n -> [1..NumColumns -> CellValues]] : n \in 0..MaxRows}}
FilterCities ==
    {<<"S", "ã", "o", " ", "J", "o", "s", "é", " ", "d", "o", "s", " ",
       "C", "a", "m", "p", "o", "s">>,
     <<"S", "a", "n", "t", "o", "s">>}

\* CityFilter.filter_dataframe_by_city(df, city_name)
InitFilter ==
    /\ LedgerUnused
    /\ result = NoResult
    /\ \E df \in DataFrames, city \in FilterCities :
          call = [op |-> "filter_dataframe_by_city", df |-> df,
                  city_name |-> city]

FilterDataframeByCity ==
    /\ call.op = "filter_dataframe_by_city"
    /\ result = NoResult
    /\ LET outcome == filter_dataframe_by_city(call.df, call.city_name)
       IN /\ call' = [call EXCEPT !.df = outcome.df]
          /\ result' = Returned(outcome.returned)
    /\ UNCHANGED <<ledgerVars, scraperVars>>

SpecFilter == InitFilter /\ [][FilterDataframeByCity]_vars

\* The calls of the core that read the caller's records.
InitCore == InitFilter \/ InitRadius \/ InitStreet \/ InitExtract
NextCore ==
    \/ FilterDataframeByCity
    \/ FindRecordsInRadius
    \/ SearchByStreet
    \/ ExtractCoordinates
SpecCore == InitCore /\ [][NextCore]_vars

\* The backing file before the first ledger object: absent, not JSON text,
\* JSON that is not an object ("[]"), or an object with no fields ("{}").
InitialDocs == {MissingDoc, CorruptDoc, JsonDoc(NotADict), JsonDoc(Dict(EmptyMap))}

Init ==
    /\ store \in InitialDocs
    /\ now = FirstYear
    /\ cache_data = [i \in Instances |-> LoadCache(store, now)]
    /\ calls = 0
    /\ ret = "returned"
    /\ run = IdleRun
    /\ outputs = EmptyMap
    /\ events = EmptyMap
    /\ runs = 0
    /\ call = NoCall
    /\ result = NoResult

\* The calls of one ledger object i, whatever their arguments.
LedgerCall(i) ==
    \/ Construct(i)
    \/ \E u \in FileUnits, m \in Metas :
          MarkFileProcessed(i, u[1], u[2], m, "ok")
    \/ \E u \in CityUnits, m \in Metas :
          MarkCityProcessed(i, u[1], u[2], u[3], m, "ok")
    \/ \E y \in Years : AddAvailableYear(i, y, "ok")
    \/ \E y \in QueryYears : ValidateYear(i, y)
    \/ ClearCache(i, "ok")

\* One process: a single ledger object over the backing file at a time (it
\* may be constructed anew, which reloads it).
Next ==
    \/ LedgerCall(1)
    \/ NewYear

Spec == Init /\ [][Next]_vars

\* Two processes, each with its own ledger object, both loaded from the same
\* backing file (Init) and neither reloaded: every interleaving of their
\* mutating calls.
NextShared ==
    \E i \in Instances :
        \/ \E u \in FileUnits, m \in Metas :
              MarkFileProcessed(i, u[1], u[2], m, "ok")
        \/ \E u \in CityUnits, m \in Metas :
              MarkCityProcessed(i, u[1], u[2], u[3], m, "ok")
        \/ \E y \in Years : AddAvailableYear(i, y, "ok")
        \/ ClearCache(i, "ok")

SpecShared == Init /\ [][NextShared]_vars

\* Scraper runs one after the other, forced or not; the year may change at
\* any time.
NextRun ==
    \/ \E ty \in TargetYears, city \in TargetCities, force \in BOOLEAN, links \in LinkMaps :
          RunStart(ty, city, force, links)
    \/ \E outcome \in ScrapeOutcomes : ScrapeCategory(outcome)
    \/ \E outcome \in CityOutcomes : ProcessCityData(outcome)
    \/ RunReturn
    \/ NewYear

SpecRun == Init /\ [][NextRun]_vars

\* Scraper runs one after the other with FORCE_REPROCESS off and no ledger
\* clear.
NextIdem ==
    \/ \E ty \in TargetYears, city \in TargetCities, links \in LinkMaps :
          RunStart(ty, city, FALSE, links)
    \/ \E outcome \in ScrapeOutcomes : ScrapeCategory(outcome)
    \/ \E outcome \in CityOutcomes : ProcessCityData(outcome)
    \/ RunReturn
    \/ NewYear

SpecIdem == Init /\ [][NextIdem]_vars

\* Scraper runs with FORCE_REPROCESS off, and between two runs direct calls
\* of mark_file_processed, which are made without validating the year.
NextMixed ==
    \/ \E ty \in TargetYears, city \in TargetCities, links \in LinkMaps :
          RunStart(ty, city, FALSE, links)
    \/ \E outcome \in ScrapeOutcomes : ScrapeCategory(outcome)
    \/ \E outcome \in CityOutcomes : ProcessCityData(outcome)
    \/ RunReturn
    \/ run.pc = "idle" /\ \E u \in DirectUnits, m \in Metas :
          MarkFileProcessed(1, u[1], u[2], m, "ok")
    \/ NewYear

SpecMixed == Init /\ [][NextMixed]_vars

\* run_scraper --limpar-cache between two runs: a ledger object of its own
\* is loaded and cleared.
ClearBetweenRuns ==
    /\ run.pc = "idle"
    /\ ClearCache(2, "ok")

\* The backing file of an empty ledger: absent, unreadable, or "{}".
EmptyLedgerDocs == {MissingDoc, CorruptDoc, JsonDoc(Dict(EmptyMap))}

InitEmpty == Init /\ store \in EmptyLedgerDocs

\* Scraper runs, forced or not, and ledger clears between them, from an
\* empty ledger.
NextClear ==
    \/ \E ty \in TargetYears, city \in TargetCities, force \in BOOLEAN, links \in LinkMaps :
          RunStart(ty, city, force, links)
    \/ \E outcome \in ScrapeOutcomes : ScrapeCategory(outcome)
    \/ \E outcome \in CityOutcomes : ProcessCityData(outcome)
    \/ RunReturn
    \/ ClearBetweenRuns
    \/ NewYear

SpecClear == InitEmpty /\ [][NextClear]_vars

\* How the write of _save_cache goes.
WriteOutcomes == {"ok", "open", "dump"}
FailedWrites == WriteOutcomes \ {"ok"}

\* A mutating call of ledger object i whose write goes as wr.
MutatingCall(i, wr) ==
    \/ \E u \in FileUnits, m \in Metas :
          MarkFileProcessed(i, u[1], u[2], m, wr)
    \/ \E u \in CityUnits, m \in Metas :
          MarkCityProcessed(i, u[1], u[2], u[3], m, wr)
    \/ \E y \in Years : AddAvailableYear(i, y, wr)
    \/ ClearCache(i, wr)

\* One ledger object at a time over a backing file whose writes may fail.
NextWrite ==
    \/ Construct(1)
    \/ \E wr \in WriteOutcomes : MutatingCall(1, wr)
    \/ NewYear

SpecWrite == Init /\ [][NextWrite]_vars

\* ------------------------------------------------------------------ claims
\* The ledger a CacheManager constructed now would hold.
Reloaded == LoadCache(store, now)

FileKeys(data) == DOMAIN ProcessedFiles(data)
CityKeys(data) == DOMAIN ProcessedCities(data)

\* The document holds exactly the ledger data: the same fields with the same
\* values, available_years as a list of the same years.
Persisted(data, doc) ==
    /\ doc.kind = "json"
    /\ doc.value.py = "dict"
    /\ DOMAIN doc.value.d = DOMAIN data.d
    /\ \A k \in DOMAIN data.d :
          IF k = "available_years"
          THEN /\ doc.value.d[k].py = "list"
               /\ doc.value.d[k].v = data.d[k].v
          ELSE doc.value.d[k] = data.d[k]

EmptyLedger(data) ==
    /\ ~Raises(data)
    /\ FileKeys(data) = {}
    /\ CityKeys(data) = {}
    /\ get_available_years(data) = {}
    /\ get_cache_info(data).total_processed_files = 0
    /\ get_cache_info(data).total_processed_cities = 0

\* A mutating ledger call that returned.
MutatingCallReturns == calls' = calls + 1 /\ ret' = "returned"

\* C1: after mark_file_processed(category, year, meta) returns,
\* is_file_processed(category, year) is true on the same ledger object and on
\* a ledger object loaded from the backing file, and constructing the ledger
\* anew keeps every processed unit; the same holds for mark_city_processed and
\* is_city_processed with (category, year, city).
C1_MarkedIsProcessed ==
    /\ [][\A u \in FileUnits, m \in Metas :
            (MarkFileProcessed(1, u[1], u[2], m, "ok") /\ ret' = "returned")
            => /\ is_file_processed(cache_data'[1], u[1], u[2])
               /\ ~Raises(LoadCache(store', now'))
               /\ is_file_processed(LoadCache(store', now'), u[1], u[2])]_vars
    /\ [][\A u \in CityUnits, m \in Metas :
            (MarkCityProcessed(1, u[1], u[2], u[3], m, "ok") /\ ret' = "returned")
            => /\ is_city_processed(cache_data'[1], u[1], u[2], u[3])
               /\ ~Raises(LoadCache(store', now'))
               /\ is_city_processed(LoadCache(store', now'), u[1], u[2], u[3])]_vars
    /\ [][(Construct(1) /\ ~Raises(cache_data[1]))
            => /\ ~Raises(cache_data'[1])
               /\ FileKeys(cache_data[1]) \subseteq FileKeys(cache_data'[1])
               /\ CityKeys(cache_data[1]) \subseteq CityKeys(cache_data'[1])]_vars

\* A file unit and a city unit are processed on the ledger object and on a
\* reload of the backing file.
C1_Witness ==
    /\ ret = "returned"
    /\ ~Raises(cache_data[1])
    /\ ~Raises(Reloaded)
    /\ \E u \in FileUnits :
          /\ is_file_processed(cache_data[1], u[1], u[2])
          /\ is_file_processed(Reloaded, u[1], u[2])
    /\ \E u \in CityUnits :
          /\ is_city_processed(cache_data[1], u[1], u[2], u[3])
          /\ is_city_processed(Reloaded, u[1], u[2], u[3])

\* The category and the city unit the run is about to handle, or has just
\* handled (k - 1).
RunFileKey(k) ==
    FileKey(CategorySeq[k],
            AnoAlvo(Get(run.links, CategorySeq[k], {}), run.target_year))
RunCityKey(k) == CityKey(CategorySeq[k], run.target_year, run.target_city)

\* The entry of key k was written by this step.
FileEntryWritten(k) ==
    \/ Raises(cache_data[1])
    \/ k \notin FileKeys(cache_data[1])
    \/ ProcessedFiles(cache_data[1])[k] # ProcessedFiles(cache_data'[1])[k]
    \/ Get(events', "mark:" \o k, 0) # Get(events, "mark:" \o k, 0)
CityEntryWritten(k) ==
    \/ Raises(cache_data[1])
    \/ k \notin CityKeys(cache_data[1])
    \/ ProcessedCities(cache_data[1])[k] # ProcessedCities(cache_data'[1])[k]
    \/ Get(events', "city_mark:" \o k, 0) # Get(events, "city_mark:" \o k, 0)

\* C2 as stated: over scraper runs with FORCE_REPROCESS off and no clear,
\* every (category, year) unit is downloaded, saved and marked at most once
\* and every (category, year, city) unit is filtered, saved and marked at
\* most once.
C2_EachStepAtMostOnce ==
    \A name \in DOMAIN events : events[name] <= 1

\* C2: over scraper runs with FORCE_REPROCESS off and no clear, every
\* (category, year) unit is saved and marked at most once and every
\* (category, year, city) unit is saved and marked at most once; a unit that
\* is in the ledger is skipped: scrape_category and process_city_data then
\* download nothing, filter nothing, write no output and leave the ledger and
\* its file as they are. (A unit whose output could not be written is not in
\* the ledger, and is downloaded or filtered again by the next run.)
C2_MarkedUnitIsSkipped ==
    /\ [](\A name \in DOMAIN events :
             \/ events[name] <= 1
             \/ \E key \in {FileKey(c, y) : c \in Categories, y \in Years} :
                   name = "download:" \o key
             \/ \E key \in {CityKey(c, y, ct) : c \in Categories, y \in Years,
                                                ct \in Cities} :
                   name = "filter:" \o key)
    /\ [][\A outcome \in ScrapeOutcomes :
            (/\ ScrapeCategory(outcome)
             /\ ~Raises(cache_data[1])
             /\ Get(run.links, CategorySeq[run.k], {}) # {}
             /\ RunFileKey(run.k) \in FileKeys(cache_data[1]))
            => UNCHANGED <<store, cache_data, outputs, events>>]_vars
    /\ [][\A outcome \in CityOutcomes :
            (/\ ProcessCityData(outcome)
             /\ ~Raises(cache_data[1])
             /\ RunCityKey(run.k) \in CityKeys(cache_data[1]))
            => UNCHANGED <<store, cache_data, outputs, events>>]_vars

\* The second run has skipped category "a" and its city unit, both marked by
\* the first run in an earlier year, and has ingested a file the first run
\* could not.
C2_Witness ==
    /\ runs = MaxRuns
    /\ run.pc = "city"
    /\ run.k = 2
    /\ run.success_count = NumCategories
    /\ ~Raises(cache_data[1])
    /\ run.target_year \in Get(run.links, "a", {})
    /\ RunFileKey(1) \in FileKeys(cache_data[1])
    /\ ProcessedFiles(cache_data[1])[RunFileKey(1)].processed_at = FirstYear
    /\ Count("download:" \o RunFileKey(1)) = 1
    /\ Count("mark:" \o RunFileKey(1)) = 1
    /\ RunCityKey(1) \in CityKeys(cache_data[1])
    /\ ProcessedCities(cache_data[1])[RunCityKey(1)].processed_at = FirstYear
    /\ Count("filter:" \o RunCityKey(1)) = 1
    /\ Count("city_mark:" \o RunCityKey(1)) = 1
    /\ \E k \in FileKeys(cache_data[1]) :
          ProcessedFiles(cache_data[1])[k].processed_at > FirstYear

\* C3: in a scraper run, every entry written to processed_files and to
\* processed_cities is for a year that is not after the current year, and a
\* run constructed with a target year after the current year returns False
\* and leaves the ledger file, the outputs and the ledger entries untouched.
C3_RunMarksOnlyValidatedYears ==
    /\ [][~Raises(cache_data'[1])
            => /\ \A k \in FileKeys(cache_data'[1]) :
                     FileEntryWritten(k)
                     => ProcessedFiles(cache_data'[1])[k].year <= now
               /\ \A k \in CityKeys(cache_data'[1]) :
                     CityEntryWritten(k)
                     => ProcessedCities(cache_data'[1])[k].year <= now]_vars
    /\ [][\A ty \in TargetYears, city \in TargetCities, force \in BOOLEAN,
             links \in LinkMaps :
            (RunStart(ty, city, force, links) /\ ty > now)
            => /\ ret' = "False"
               /\ run'.pc = "idle"
               /\ UNCHANGED <<store, outputs, events>>]_vars

\* A run has marked a file and a city, and a later run with a target year
\* still to come has returned False.
C3_Witness ==
    /\ run.pc = "idle"
    /\ run.target_year > now
    /\ ret = "False"
    /\ ~Raises(cache_data[1])
    /\ \E k \in FileKeys(cache_data[1]) : Count("mark:" \o k) > 0
    /\ \E k \in CityKeys(cache_data[1]) : Count("city_mark:" \o k) > 0

\* C4 as stated: whatever calls produced the ledger, every key of
\* processed_files is of a year that validate_year accepted when the key was
\* marked.
C4_EveryKeyValidated ==
    ~Raises(cache_data[1])
    => \A k \in FileKeys(cache_data[1]) :
          validate_year(ProcessedFiles(cache_data[1])[k].year,
                        ProcessedFiles(cache_data[1])[k].processed_at)

\* C4: every key of processed_files that a scraper run marked is of a year
\* that was not after the current year when the key was marked;
\* mark_file_processed itself validates nothing, so a key marked by a direct
\* call may be of any year.
C4_ScraperKeysValidated ==
    ~Raises(cache_data[1])
    => \A k \in FileKeys(cache_data[1]) :
          Count("mark:" \o k) > 0
          => ProcessedFiles(cache_data[1])[k].year
                <= ProcessedFiles(cache_data[1])[k].processed_at

\* The ledger holds a key a scraper run marked and a key of a year still to
\* come that a direct call marked.
C4_Witness ==
    /\ ~Raises(cache_data[1])
    /\ \E k \in FileKeys(cache_data[1]) :
          /\ Count("mark:" \o k) > 0
          /\ ProcessedFiles(cache_data[1])[k].year <= now
    /\ \E k \in FileKeys(cache_data[1]) :
          /\ Count("mark:" \o k) = 0
          /\ ProcessedFiles(cache_data[1])[k].year > now

\* C5: after each of mark_file_processed, mark_city_processed,
\* add_available_year and clear_cache returns, the backing file holds exactly
\* the in-memory ledger (available_years as a list): nothing is left
\* unpersisted or batched.
C5_SavedAfterEveryMutation ==
    [][MutatingCallReturns => Persisted(cache_data'[1], store')]_vars

\* Three mutating calls were made and the file holds the ledger they built: a
\* file, a city and a year.
C5_Witness ==
    /\ calls = MaxCalls
    /\ ret = "returned"
    /\ ~Raises(cache_data[1])
    /\ Persisted(cache_data[1], store)
    /\ FileKeys(cache_data[1]) # {}
    /\ CityKeys(cache_data[1]) # {}
    /\ get_available_years(cache_data[1]) # {}

\* C6: a ledger constructed over a missing or malformed backing document is
\* an empty, usable ledger: its queries raise nothing and report no file, no
\* city and no year. (Before the first mutating call the backing file is
\* still the document the ledger was constructed over.)
C6_MalformedLoadsEmpty ==
    calls = 0 => EmptyLedger(cache_data[1])

\* C7: after clear_cache returns, no file and no city is processed,
\* available_years is empty, and the backing file holds this empty ledger, so
\* a ledger loaded right afterwards is empty too.
C7_ClearEmptiesLedgerAndStore ==
    [][ClearCache(1, "ok")
        => /\ EmptyLedger(cache_data'[1])
           /\ store'.kind = "json"
           /\ EmptyLedger(LoadCache(store', now'))]_vars

\* After at least two mutating calls and a change of year the ledger and
\* the backing file are the empty ledger that clear_cache builds.
C7_Witness ==
    /\ calls >= 2
    /\ ret = "returned"
    /\ now > FirstYear
    /\ EmptyLedger(cache_data[1])
    /\ store = JsonDoc(CacheToSave(DefaultCache(now)))

\* C8: once a file or a city is processed on the ledger, it stays processed
\* over every ledger call other than clear_cache.
C8_OnlyClearRemoves ==
    [][(~ClearCache(1, "ok") /\ ~Raises(cache_data[1]))
        => /\ ~Raises(cache_data'[1])
           /\ FileKeys(cache_data[1]) \subseteq FileKeys(cache_data'[1])
           /\ CityKeys(cache_data[1]) \subseteq CityKeys(cache_data'[1])]_vars

\* A file marked in an earlier year is still processed after further calls.
C8_Witness ==
    /\ calls = MaxCalls
    /\ ~Raises(cache_data[1])
    /\ \E u \in FileUnits :
          /\ is_file_processed(cache_data[1], u[1], u[2])
          /\ ProcessedFiles(cache_data[1])[FileKey(u[1], u[2])].processed_at < now
    /\ Cardinality(FileKeys(cache_data[1])) >= 2
    /\ CityKeys(cache_data[1]) # {}

\* C9: two ledger objects loaded from the same backing file and never
\* reloaded: the file always holds exactly the ledger of the object that
\* saved last (or the initial document), so a file never holds both a key
\* only the one object marked and a key only the other marked.
C9_LastWriterWins ==
    /\ \/ store \in InitialDocs
       \/ \E i \in Instances :
             ~Raises(cache_data[i]) /\ Persisted(cache_data[i], store)
    /\ (~Raises(cache_data[1]) /\ ~Raises(cache_data[2]) /\ ~Raises(Reloaded))
       => /\ ~ \E k1 \in FileKeys(cache_data[1]) \ FileKeys(cache_data[2]),
                  k2 \in FileKeys(cache_data[2]) \ FileKeys(cache_data[1]) :
                  {k1, k2} \subseteq FileKeys(Reloaded)
          /\ ~ \E k1 \in CityKeys(cache_data[1]) \ CityKeys(cache_data[2]),
                  k2 \in CityKeys(cache_data[2]) \ CityKeys(cache_data[1]) :
                  {k1, k2} \subseteq CityKeys(Reloaded)

\* Each object marked a file the other did not, and the backing file holds
\* only the second object's: the first object's update is lost.
C9_Witness ==
    /\ ~Raises(cache_data[1])
    /\ ~Raises(cache_data[2])
    /\ ~Raises(Reloaded)
    /\ \E k1 \in FileKeys(cache_data[1]) \ FileKeys(cache_data[2]),
          k2 \in FileKeys(cache_data[2]) \ FileKeys(cache_data[1]) :
          /\ k2 \in FileKeys(Reloaded)
          /\ k1 \notin FileKeys(Reloaded)

\* C10: validate_year(year) is false exactly when year exceeds the current
\* calendar year (true for the current year, false for the next), and the call
\* changes neither the ledger nor the backing file.
C10_ValidateYearIsNotFuture ==
    [][\A y \in QueryYears :
          ValidateYear(1, y)
          => /\ (ret' = "False") <=> (y > now)
             /\ (ret' = "True") <=> (y <= now)
             /\ (y = now => ret' = "True")
             /\ (y = now + 1 => ret' = "False")
             /\ cache_data' = cache_data
             /\ store' = store]_vars

\* validate_year returned False on a ledger that holds entries.
C10_Witness ==
    /\ ret = "False"
    /\ ~Raises(cache_data[1])
    /\ FileKeys(cache_data[1]) # {}
    /\ store.kind = "json"

\* The call returned the list out.
Out == result.v
Zero == Dec(0, 1)

\* C11: the list find_records_in_radius returns is in non-decreasing order
\* of distancia_km, and every item of it has distancia_km <= radius_km.
C11_SortedWithinRadius ==
    (call.op = "find_records_in_radius" /\ result # NoResult)
    => /\ \A i \in 1..(Len(Out) - 1) :
             FloatLE(Out[i].distancia_km, Out[i + 1].distancia_km)
       /\ \A i \in 1..Len(Out) : FloatLE(Out[i].distancia_km, call.radius_km)

\* The nearer record of the second group is returned before the farther one
\* of the first group, and a third record is left out.
C11_Witness ==
    /\ call.op = "find_records_in_radius"
    /\ result # NoResult
    /\ Len(Out) = 2
    /\ Out[1].categoria = GroupNames[2]
    /\ Out[2].categoria = GroupNames[1]
    /\ Out[1].distancia_km # Out[2].distancia_km
    /\ Len(call.all_data[1].dados) + Len(call.all_data[2].dados) = 3

\* The positions of the records that find_records_in_radius has to return
\* according to C12: both coordinates parse and the distance is within the
\* radius.
Qualifying ==
    {pos \in {Scan(call.all_data, 1)[i] : i \in 1..Len(Scan(call.all_data, 1))} :
        LET coords == extract_coordinates(RecordAt(call.all_data, pos))
        IN /\ HasCoordinatesNotNone(coords)
           /\ FloatLE(calculate_distance(call.center_lat, call.center_lon,
                                         coords[1], coords[2]),
                      call.radius_km)}

\* C12: find_records_in_radius returns every record whose latitude and
\* longitude both parse and whose distance to the centre is <= radius_km,
\* once per occurrence, and nothing else.
C12_EveryRecordInRadiusReturned ==
    (call.op = "find_records_in_radius" /\ result # NoResult)
    => /\ Len(Out) = Cardinality(Qualifying)
       /\ \A pos \in Qualifying :
             \E i \in 1..Len(Out) :
                /\ Out[i].dados_originais = RecordAt(call.all_data, pos)
                /\ Out[i].categoria = call.all_data[pos[1]].categoria

\* The index of the first position of all_data, in scan order, that
\* satisfies P; 0 when there is none.
FirstIndex(all_data, P(_)) ==
    LET ps == Scan(all_data, 1)
        idx == {i \in 1..Len(ps) : P(RecordAt(all_data, ps[i]))}
    IN IF idx = {} THEN 0 ELSE Min(idx)

\* The street name is in an accepted address field of the record and both
\* coordinates of the record parse.
StreetAndParsed(record) ==
    /\ AddressMatches(call.street_name, record)
    /\ HasCoordinatesNotNone(extract_coordinates(record))

\* C13: search_by_street returns the coordinates of the first record, groups
\* in order and records in order, that has an accepted address field whose
\* lowercased text holds the lowercased street name and whose latitude and
\* longitude both parse; it returns None only when there is no such record.
C13_FirstParsedMatchReturned ==
    (call.op = "search_by_street" /\ result # NoResult)
    => LET i == FirstIndex(call.all_data, StreetAndParsed)
       IN IF i = 0 THEN Out = None
          ELSE Out = CoordinatesOf(
                        RecordAt(call.all_data, Scan(call.all_data, 1)[i]))

\* The record search_by_street takes the coordinates from, for the query of
\* a search_and_analyze call.
QueryMatch(record) ==
    /\ AddressMatches(call.query, record)
    /\ HasCoordinates(extract_coordinates(record))
Matched ==
    RecordAt(call.all_data,
             Scan(call.all_data, 1)[FirstIndex(call.all_data, QueryMatch)])
StreetFound ==
    /\ call.op = "search_and_analyze"
    /\ result # NoResult
    /\ ~is_coordinate_format(call.query)
    /\ FirstIndex(call.all_data, QueryMatch) # 0

\* The two files of the scenario and what the query "Rua A" with a radius of
\* 2 km returns for them.
Scenario ==
    << [categoria |-> GroupNames[1],
        dados |-> << [logradouro |-> StrV(RuaA), latitude |-> Lat(-2300),
                      longitude |-> Lon46] >>],
       [categoria |-> GroupNames[2],
        dados |-> << [logradouro |-> StrV(RuaB), latitude |-> Lat(-2301),
                      longitude |-> Lon46] >>] >>
ScenarioHolds ==
    (/\ call.op = "search_and_analyze"
     /\ result # NoResult
     /\ call.all_data = Scenario
     /\ call.query = RuaA
     /\ call.radius_km = Dec(2, 1))
    => /\ Len(Out) = 2
       /\ Out[1].dados_originais = Scenario[1].dados[1]
       /\ Out[1].distancia_km = Zero
       /\ Out[2].dados_originais = Scenario[2].dados[1]
       /\ Out[2].distancia_km = Dec(111, 100)

\* C14 as stated: for a street query search_and_analyze returns
\* find_records_in_radius around the coordinates search_by_street returns,
\* and the matched record is the first item of the result, at distance 0.
C14_MatchedRecordFirst ==
    /\ StreetFound
       => /\ Out = find_records_in_radius(
                      search_by_street(call.query, call.all_data).lat,
                      search_by_street(call.query, call.all_data).lon,
                      call.radius_km, call.all_data)
          /\ Len(Out) >= 1
          /\ Out[1].dados_originais = Matched
          /\ Out[1].distancia_km = Zero
    /\ ScenarioHolds

\* C14: for a street query search_and_analyze returns find_records_in_radius
\* around the coordinates search_by_street returns; with a radius >= 0 and
\* coordinates that are numbers, the matched record is in the result at
\* distance 0 and only items at distance 0 come before it; with a coordinate
\* that is NaN the result is empty; the scenario of 'Rua A' and 'Rua B'
\* returns both records in ascending order.
C14_MatchedRecordAtZero ==
    /\ StreetFound
       => /\ Out = find_records_in_radius(
                      search_by_street(call.query, call.all_data).lat,
                      search_by_street(call.query, call.all_data).lon,
                      call.radius_km, call.all_data)
          /\ (/\ FloatLE(Zero, call.radius_km)
              /\ IsNum(extract_coordinates(Matched)[1])
              /\ IsNum(extract_coordinates(Matched)[2]))
             => \E i \in 1..Len(Out) :
                   /\ Out[i].dados_originais = Matched
                   /\ Out[i].distancia_km = Zero
                   /\ \A j \in 1..(i - 1) : Out[j].distancia_km = Zero
          /\ (\/ extract_coordinates(Matched)[1] = NaN
              \/ extract_coordinates(Matched)[2] = NaN)
             => Out = << >>
    /\ ScenarioHolds

\* The matched record is returned second, after a record of another address
\* at the same place, and a farther record third.
C14_Witness ==
    /\ StreetFound
    /\ Len(Out) = 3
    /\ Out[1].dados_originais # Matched
    /\ Out[2].dados_originais = Matched
    /\ Out[2].distancia_km = Zero
    /\ Out[3].distancia_km # Zero

\* The value of the first field of the list that is in the record and
\* parses as a finite float, None when there is none.
FirstFinite(fields, record) ==
    LET ok == {i \in 1..Len(fields) :
                  /\ fields[i] \in DOMAIN record
                  /\ IsNum(PyFloat(record[fields[i]]))}
    IN IF ok = {} THEN None ELSE PyFloat(record[fields[Min(ok)]])

\* C15: extract_coordinates returns, for the latitude and for the longitude,
\* the value of the first accepted field, in list order, that is in the
\* record and parses as a finite float, and None when no accepted field does.
C15_FirstFiniteFloat ==
    (call.op = "extract_coordinates" /\ result # NoResult)
    => /\ Out[1] = FirstFinite(LATITUDE_FIELDS, call.record)
       /\ Out[2] = FirstFinite(LONGITUDE_FIELDS, call.record)

\* The trimmed text has exactly two comma-separated parts, both floats, the
\* first within [-90, 90] and the second within [-180, 180].
TwoPartsInRange(text) ==
    LET parts == Split(Strip(text), ",")
    IN  /\ Len(parts) = 2
        /\ ParseFloat(parts[1]) # NotAFloat
        /\ ParseFloat(parts[2]) # NotAFloat
        /\ FloatLE(Dec(-90, 1), ParseFloat(parts[1]))
        /\ FloatLE(ParseFloat(parts[1]), Dec(90, 1))
        /\ FloatLE(Dec(-180, 1), ParseFloat(parts[2]))
        /\ FloatLE(ParseFloat(parts[2]), Dec(180, 1))

\* C16: is_coordinate_format(text) returns True exactly when the trimmed text
\* has exactly two comma-separated parts that both parse as floats, the
\* first within [-90, 90] and the second within [-180, 180], and False for
\* every other text: False for 'Rua das Flores', True for '-23.55,-46.63'.
C16_CoordinateFormat ==
    (call.op = "is_coordinate_format" /\ result # NoResult)
    => /\ Out \in BOOLEAN
       /\ Out = TwoPartsInRange(call.text)
       /\ call.text = ExampleStreet => Out = FALSE
       /\ call.text = ExampleCoordinates => Out = TRUE

\* The text "-90,180", which reaches both limits, is accepted.
C16_Witness ==
    /\ call.op = "is_coordinate_format"
    /\ call.text = <<"-", "9", "0", ",", "1", "8", "0">>
    /\ result = Returned(TRUE)

\* C17: parse_coordinates raises the invalid-format error for every text
\* that is_coordinate_format rejects, and returns (-23.55, -46.63) for
\* '-23.55,-46.63'.
C17_RejectedTextRaises ==
    (call.op = "parse_coordinates" /\ result # NoResult)
    => /\ ~is_coordinate_format(call.text) => Out = InvalidFormat
       /\ call.text = ExampleCoordinates
          => Out = Pair(Dec(-2355, 100), Dec(-4663, 100))

\* The positions of the candidate city columns of a frame, in column order,
\* and the rows of the frame whose cell in column c matches the city.
CandidateColumns(df) ==
    {c \in 1..Len(df.columns) : find_city_columns(<<df.columns[c]>>) # <<>>}
MatchingRows(df, c, city_name) ==
    {i \in 1..Len(df.rows) :
        city_matches(df.rows[i][c], StrV(normalize_city_name(city_name))).v}
UsedColumns(df, city_name) ==
    {c \in CandidateColumns(df) : MatchingRows(df, c, city_name) # {}}
FilterReturns ==
    /\ call.op = "filter_dataframe_by_city"
    /\ result = NoResult
    /\ result' # NoResult

\* C18: the filter returns the rows that match in the first candidate city
\* column with a match, whatever later candidate columns hold, and all the
\* rows when there is no candidate column or none has a match; the result
\* is not empty when the input is not.
C18_FirstMatchingColumnOrAll ==
    [][FilterReturns =>
        LET df == call.df
            used == UsedColumns(df, call.city_name)
            rows == IF used = {} THEN 1..Len(df.rows)
                    ELSE MatchingRows(df, Min(used), call.city_name)
            out == result'.v
        IN /\ {out.index[k] : k \in 1..Len(out.index)} = {df.index[i] : i \in rows}
           /\ Len(out.index) = Cardinality(rows)
           /\ Len(out.rows) = Len(out.index)
           /\ \A k \in 1..Len(out.index) : \A i \in rows :
                 out.index[k] = df.index[i] => out.rows[k] = call'.df.rows[i]
           /\ \A j, k \in 1..Len(out.index) : j < k => out.index[j] < out.index[k]
           /\ df.rows # <<>> => out.rows # <<>>]_vars

\* The first candidate column has no match, the second has one for one of
\* two rows, and that row is what the filter returned.
C18_Witness ==
    /\ call.op = "filter_dataframe_by_city"
    /\ result # NoResult
    /\ CandidateColumns(call.df) = {1, 2}
    /\ MatchingRows(call.df, 1, call.city_name) = {}
    /\ MatchingRows(call.df, 2, call.city_name) = {2}
    /\ Len(call.df.rows) = 2
    /\ Out.index = <<2>>

\* No candidate column of the frame has a row that matches the city.
FailOpen(df, city_name) == UsedColumns(df, city_name) = {}

\* C19: a call of the filter, of find_records_in_radius, of search_by_street
\* or of extract_coordinates leaves its arguments as they were, and the
\* frame the filter returns on fail-open is equal to the frame it was given.
C19_InputsUnchanged ==
    [][/\ call' = call
       /\ (FilterReturns /\ FailOpen(call.df, call.city_name))
          => result'.v = call.df]_vars

\* The normalized cell and the target's words of a city_matches call.
CellNormalized == normalize_city_name(PyStr(call.cell_value))
Target == call.normalized_city.s
TargetWords == Words(Target)
LongTargetWords == {i \in 1..Len(TargetWords) : Len(TargetWords[i]) > 2}
WordsFound ==
    {i \in LongTargetWords : Contains(TargetWords[i], CellNormalized)}
SignificantFound == {i \in WordsFound : TargetWords[i] \notin StopWords}
SignificantTotal == {i \in LongTargetWords : TargetWords[i] \notin StopWords}
TargetInitials == [i \in 1..Len(TargetWords) |-> TargetWords[i][1]]

RuleExact == CellNormalized = Target
RuleContainment == Contains(Target, CellNormalized)
RuleKeywords ==
    /\ Len(TargetWords) >= 2
    /\ \/ Cardinality(SignificantFound) >= 2
       \/ /\ SignificantTotal # {}
          /\ 10 * Cardinality(SignificantFound) >= 6 * Cardinality(SignificantTotal)
       \/ Cardinality(WordsFound) >= 3
RuleSimilarity ==
    10 * Cardinality(Chars(CellNormalized) \cap Chars(Target))
       >= 7 * Cardinality(Chars(CellNormalized) \cup Chars(Target))
RuleAbbreviation ==
    /\ Len(TargetWords) >= 2
    /\ \/ Contains(TargetInitials, CellNormalized)
       \/ Contains(<<TargetWords[1][1], ".">> \o Tail(TargetWords[1]),
                   CellNormalized)
       \/ Contains(<<TargetWords[1][1], " ">> \o TargetWords[2], CellNormalized)
       \/ Contains(<<TargetWords[1][1], ".">> \o TargetWords[2], CellNormalized)
       \/ Contains(<<TargetWords[1][1]>> \o TargetWords[2], CellNormalized)

SaoJoseDosCampos ==
    <<"s", "a", "o", " ", "j", "o", "s", "e", " ", "d", "o", "s", " ",
      "c", "a", "m", "p", "o", "s">>

\* C20: city_matches is true exactly when the exact, containment, keyword,
\* similarity or abbreviation rule holds for the normalized cell and the
\* target; 'SAO JOSE DOS CAMPOS' and 'S.JOSE DOS CAMPOS' match the
\* normalized 'São José dos Campos'.
C20_MatchesIffARuleHolds ==
    (/\ call.op = "city_matches"
     /\ result # NoResult
     /\ call.normalized_city.t = "str")
    => /\ Out = (\/ RuleExact
                 \/ RuleContainment
                 \/ RuleKeywords
                 \/ RuleSimilarity
                 \/ RuleAbbreviation)
       /\ (/\ Target = SaoJoseDosCampos
           /\ call.cell_value \in
                 {StrV(<<"S", "A", "O", " ", "J", "O", "S", "E", " ", "D", "O",
                         "S", " ", "C", "A", "M", "P", "O", "S">>),
                  StrV(<<"S", ".", "J", "O", "S", "E", " ", "D", "O", "S", " ",
                         "C", "A", "M", "P", "O", "S">>)})
          => Out = TRUE

\* 'S.JOSE DOS CAMPOS' matched the normalized 'São José dos Campos' by its
\* keywords only.
C20_Witness ==
    /\ call.op = "city_matches"
    /\ result = Returned(TRUE)
    /\ call.normalized_city = StrV(SaoJoseDosCampos)
    /\ call.cell_value = StrV(<<"S", ".", "J", "O", "S", "E", " ", "D", "O", "S",
                                " ", "C", "A", "M", "P", "O", "S">>)
    /\ ~RuleExact /\ ~RuleContainment /\ RuleKeywords

Campinas == <<"c", "a", "m", "p", "i", "n", "a", "s">>
Santos == StrV(<<"S", "a", "n", "t", "o", "s">>)

\* C21: for a target of one word, city_matches is false whenever the
\* normalized cell does not contain the target and their character-set
\* similarity is below the threshold; 'Santos' does not match 'campinas'.
C21_UnrelatedNameNoMatch ==
    (/\ call.op = "city_matches"
     /\ result # NoResult
     /\ call.normalized_city.t = "str"
     /\ Len(TargetWords) = 1)
    => /\ (~RuleContainment /\ ~RuleSimilarity) => Out = FALSE
       /\ (Target = Campinas /\ call.cell_value = Santos) => Out = FALSE

\* The cell 'Santos' was tested against 'campinas' and did not match.
C21_Witness ==
    /\ call.op = "city_matches"
    /\ call.normalized_city = StrV(Campinas)
    /\ call.cell_value = Santos
    /\ ~RuleContainment /\ ~RuleSimilarity
    /\ result = Returned(FALSE)

\* C22: city_matches never raises: for every cell value, str or not, and
\* every target it returns a boolean, and False when an exception was
\* raised inside it.
C22_MatchesNeverRaises ==
    (call.op = "city_matches" /\ result # NoResult)
    => /\ result.py = "returned"
       /\ result.v \in BOOLEAN
       /\ CityMatchesBody(call.cell_value, call.normalized_city).py = "raised"
          => result.v = FALSE

\* A cell that is None was tested against a target that is not a str: the
\* TypeError was caught and False returned.
C22_Witness ==
    /\ call.op = "city_matches"
    /\ call.cell_value = NoneV
    /\ call.normalized_city = NoneV
    /\ CityMatchesBody(call.cell_value, call.normalized_city) = Raised("TypeError")
    /\ result = Returned(FALSE)

\* C23: normalize_city_name returns a str for every str, the result is left
\* as it is by a second normalisation, and the empty str gives the empty
\* str.
C23_NormalizeIdempotent ==
    (call.op = "normalize_city_name" /\ result # NoResult)
    => /\ result.py = "returned"
       /\ Out \in Seq(NameChars \cup {"s"})
       /\ normalize_city_name(Out) = Out
       /\ call.city_name = << >> => Out = << >>

\* A name with blanks around it, a capital, an accent and two points
\* became "s a".
C23_Witness ==
    /\ call.op = "normalize_city_name"
    /\ call.city_name = <<" ", "S", ".", " ", "ã">>
    /\ result = Returned(<<"s", " ", "a">>)

\* C24: calculate_distance is symmetric in its two points, is zero between
\* a valid point and itself, and is never negative.
C24_DistanceSymmetricZeroNonNegative ==
    (call.op = "calculate_distance" /\ result # NoResult) =>
       /\ Out = calculate_distance(call.lat2, call.lon2, call.lat1, call.lon1)
       /\ (call.lat1 = call.lat2 /\ call.lon1 = call.lon2 => Out = Zero)
       /\ FloatLE(Zero, Out)
\* Two points of one meridian, 24 degrees apart, at 2668.68 km.
C24_Witness ==
    /\ call.op = "calculate_distance"
    /\ result # NoResult
    /\ call.lon1 = call.lon2
    /\ call.lat1 = Dec(12, 1)
    /\ call.lat2 = Dec(-12, 1)
    /\ Out = Dec(266868, 100)

\* The years of the entries of processed_files.
YearsOfFiles(data) ==
    {ProcessedFiles(data)[k].year : k \in DOMAIN ProcessedFiles(data)}

\* C25: between the steps of the scraper, in the ledger of the running
\* scraper and in the one a new ledger object would load, available_years is
\* the set of the years of the entries of processed_files.
C25_AvailableYearsAreFileYears ==
    /\ get_available_years(Reloaded) = YearsOfFiles(Reloaded)
    /\ run.pc # "idle" =>
          get_available_years(cache_data[1]) = YearsOfFiles(cache_data[1])
\* After a clear, files of two years are marked again.
C25_Witness ==
    /\ calls > 0
    /\ Cardinality(get_available_years(Reloaded)) = 2
    /\ Cardinality(DOMAIN ProcessedFiles(Reloaded)) = 3

\* The step is one scrape_category call of run's loop.
IsScrapeStep == run.pc = "scrape" /\ run' # run
\* The step is the return of a run() that went through its loops.
IsRunReturn == run.pc = "city" /\ run'.pc = "idle"
HasFile(data, category, year) ==
    ~Raises(data) /\ is_file_processed(data, category, year)

\* C26: when scrape_category returns True, the file of its category and of
\* the year it chose is in the ledger; when run returns True, the ledger
\* holds at least one file.
C26_TrueOnlyIfFileInLedger ==
    [][/\ (IsScrapeStep /\ ret' = "True") =>
            LET category == CategorySeq[run.k]
                download_links == Get(run.links, category, {})
            IN /\ download_links # {}
               /\ HasFile(cache_data'[1], category,
                          AnoAlvo(download_links, run.target_year))
       /\ (IsRunReturn /\ ret' = "True") =>
            /\ ~Raises(cache_data'[1])
            /\ DOMAIN ProcessedFiles(cache_data'[1]) # {}]_vars

\* The two entry counts of get_cache_info.
EntryCounts(data) ==
    <<get_cache_info(data).total_processed_files,
      get_cache_info(data).total_processed_cities>>

\* C27: a city unit becomes processed only in a step that marks exactly
\* that (category, year, city), a file unit only in a step that marks
\* exactly that (category, year), and marking a unit that is processed
\* already leaves the entry counts as they are.
C27_DistinctUnitsDistinctEntries ==
    [][(~Raises(cache_data[1]) /\ ~Raises(cache_data'[1])) =>
        /\ \A u \in CityUnits :
              (/\ ~is_city_processed(cache_data[1], u[1], u[2], u[3])
               /\ is_city_processed(cache_data'[1], u[1], u[2], u[3]))
              => \E m \in Metas :
                    MarkCityProcessed(1, u[1], u[2], u[3], m, "ok")
        /\ \A u \in FileUnits :
              (/\ ~is_file_processed(cache_data[1], u[1], u[2])
               /\ is_file_processed(cache_data'[1], u[1], u[2]))
              => \E m \in Metas : MarkFileProcessed(1, u[1], u[2], m, "ok")
        /\ \A u \in CityUnits :
              (/\ is_city_processed(cache_data[1], u[1], u[2], u[3])
               /\ \E m \in Metas :
                     MarkCityProcessed(1, u[1], u[2], u[3], m, "ok"))
              => EntryCounts(cache_data'[1]) = EntryCounts(cache_data[1])
        /\ \A u \in FileUnits :
              (/\ is_file_processed(cache_data[1], u[1], u[2])
               /\ \E m \in Metas : MarkFileProcessed(1, u[1], u[2], m, "ok"))
              => EntryCounts(cache_data'[1]) = EntryCounts(cache_data[1])]_vars

\* C28: a mutating call whose write fails returns normally, and a ledger
\* loaded from the backing file after it is the one that would have been
\* loaded before it: the ledger saved last.
C28_FailedWriteKeepsLastSaved ==
    [][(/\ ~Raises(cache_data[1])
        /\ \E wr \in FailedWrites : MutatingCall(1, wr))
       => (/\ ret' = "returned"
           /\ LoadCache(store', now) = LoadCache(store, now))]_vars

IsCityStep == run.pc = "city" /\ run'.pc = "city" /\ run'.k = run.k + 1
\* The category of the city step lacks the target year, and its file of the
\* most recent year is in the ledger.
IngestedByFallback ==
    LET category == CategorySeq[run.k]
        download_links == Get(run.links, category, {})
    IN /\ download_links # {}
       /\ run.target_year \notin download_links
       /\ HasFile(cache_data[1], category, Max(download_links))
\* The city key of the step's category under the year given.
StepCityKey(year) == CityKey(CategorySeq[run.k], year, run.target_city)
\* The city entries and city marks the step made.
NewCityKeys ==
    IF Raises(cache_data[1]) THEN {}
    ELSE CityKeys(cache_data'[1]) \ CityKeys(cache_data[1])
MarkedCityKeys ==
    {k \in {StepCityKey(y) : y \in Years} :
        Get(events', "city_mark:" \o k, 0) # Get(events, "city_mark:" \o k, 0)}

\* C30 as stated: every city mark of a run is keyed by the run's target
\* year; for a category ingested under its most recent year as fallback the
\* city step makes no entry for that year and returns True.
C30_FallbackCityStepReturnsTrue ==
    [][IsCityStep =>
        /\ MarkedCityKeys \subseteq {StepCityKey(run.target_year)}
        /\ NewCityKeys \subseteq {StepCityKey(run.target_year)}
        /\ IngestedByFallback =>
              /\ StepCityKey(Max(Get(run.links, CategorySeq[run.k], {})))
                    \notin NewCityKeys
              /\ ret' = "True"]_vars

\* C30: every city mark of a run is keyed by the run's target year; for a
\* category ingested under its most recent year as fallback the city step
\* makes no entry for that year, and it returns True when no complete data
\* of the target year is in the output directory.
C30_CityMarksKeyedByTargetYear ==
    [][IsCityStep =>
        /\ MarkedCityKeys \subseteq {StepCityKey(run.target_year)}
        /\ NewCityKeys \subseteq {StepCityKey(run.target_year)}
        /\ IngestedByFallback =>
              /\ StepCityKey(Max(Get(run.links, CategorySeq[run.k], {})))
                    \notin NewCityKeys
              /\ (FileName(CategorySeq[run.k], run.target_year)
                    \notin DOMAIN outputs) => ret' = "True"]_vars
\* The city loop is over: the second category was ingested under its most
\* recent year, its city step returned True and left no city entry for that
\* year, while the city of the first category was marked under the target
\* year.
C30_Witness ==
    /\ run.pc = "city"
    /\ run.k = NumCategories + 1
    /\ ret = "True"
    /\ ~Raises(cache_data[1])
    /\ LET category == CategorySeq[NumCategories]
           download_links == Get(run.links, category, {})
       IN /\ download_links # {}
          /\ run.target_year \notin download_links
          /\ is_file_processed(cache_data[1], category, Max(download_links))
          /\ Count("mark:" \o FileKey(category, Max(download_links))) = 1
          /\ ~is_city_processed(cache_data[1], category, Max(download_links),
                                run.target_city)
          /\ ~is_city_processed(cache_data[1], category, run.target_year,
                                run.target_city)
    /\ is_city_processed(cache_data[1], CategorySeq[1], run.target_year,
                         run.target_city)

====
